---- MODULE Spec2Model ----
(***************************************************************************)
(* A model of the Doxygen symbol index and call-graph query engine of      *)
(* skills/doxygen-generator/scripts/query.py, and of the scripts around it: *)
(* hook.py, generate.py, analyze.py and search_index.py.                    *)
(*                                                                          *)
(* The module holds several specifications over one set of variables; each  *)
(* specification pins the variables it does not use:                        *)
(*   SpecCG / SpecCGLive  build_callgraph, one step per loop iteration,     *)
(*                        call or return of _traverse                       *)
(*   SpecIdx              find_symbol, get_all_symbols and get_members on   *)
(*                        both backends over the same XML documents         *)
(*   SpecScope            find_symbol, get_all_symbols and get_all_files    *)
(*                        with a scope prefix on both backends              *)
(*   SpecList             cmd_list on either backend                        *)
(*   SpecFrame            get_all_symbols calls and list commands on the    *)
(*                        same instances                                    *)
(*   SpecPage             a client paging through a list with _paginate     *)
(*   SpecStore            symbols.db while XML documents are written and    *)
(*                        deleted and DoxygenSQLiteIndex is constructed     *)
(*   SpecRequest          one list request answered through _paginate       *)
(*   SpecBoth             build_callgraph on both backends                  *)
(*   SpecRebuild          two processes opening and querying one symbols.db *)
(*   SpecHook             hook.py install and remove on one hook file       *)
(*   SpecGen              generate.py runs and source edits                 *)
(*   SpecInc              extract_include_edges over one source file        *)
(*   SpecSearch           search_index.py invocations on one workspace      *)
(***************************************************************************)
EXTENDS Integers, Sequences, FiniteSets, TLC

VARIABLES
    \* ---- build_callgraph: the arguments and the index it walks
    cg_syms,        \* name -> the list find_symbol(name) returns (<<>> or one record)
    cg_name,        \* argument name
    cg_depth,       \* argument depth
    cg_dir,         \* argument direction
    cg_exclude,     \* argument exclude_kinds (a set; {} stands for None)
    cg_macros,      \* args.include_macros of the callgraph command
    max_nodes,      \* argument max_nodes of the running call
    \* ---- build_callgraph: the locals of the running call
    visited,        \* the closure's visited set
    node_count,     \* the closure's node_count[0]
    cg_stack,       \* the activation records of _traverse, innermost last
    cg_result,      \* <<the returned dict (tree and _meta)>>, <<>> before the return
    cg_full,        \* <<the dict returned by the same call with max_nodes = 0>>
    cg_pc,          \* "start" | "run" | "done"
    \* ---- the XML directory Doxygen wrote
    xml_index,      \* index.xml: [state, compounds]
    xml_docs,       \* <refid>.xml per compound: [state, def, members]
    xml_members,    \* the <memberdef> element of each member id
    \* ---- a DoxygenXMLIndex instance
    x_index,        \* self._index, as the list of entries in insertion order
    x_all_symbols,  \* self._all_symbols: <<>> for None, else <<the list>>
    \* ---- the store symbols.db
    db,             \* [exists, mtime, symbols, refs, meta]
    \* ---- the last query made on both backends
    ix_op,          \* the operation, "" before the first
    ix_arg,         \* its argument
    ix_scope,       \* its argument scope ("" when the operation has none)
    ix_xml,         \* what DoxygenXMLIndex returned: [raised, results]
    ix_sql,         \* what DoxygenSQLiteIndex returned: [raised, results]
    \* ---- the list command
    ls_backend,     \* "xml" | "sqlite": the backend main() selected, "" before
    ls_kind,        \* args.kind: <<>> for None, else <<the string>>
    ls_ret,         \* <<what cmd_list returned and printed>>, <<>> before
    \* ---- a client paging through a list with _paginate
    pg_items,       \* the full list
    pg_limit,       \* the page size
    pg_offset,      \* the offset of the next request
    pg_acc,         \* the pages received so far, concatenated
    pg_meta,        \* <<the meta dict of the last page>>, <<>> before
    pg_pc,          \* "idle" | "paging" | "done"
    \* ---- the XML directory and the store over time
    xml_mtime,      \* st_mtime of index.xml and of each <refid>.xml
    now,            \* the clock
    st_last,        \* the last step taken on the directory: [op, existed, rebuilt, raised]
    \* ---- processes that construct a DoxygenSQLiteIndex on one store
    rb_pc,          \* where each process is in __init__ / its query
    rb_txn,         \* the open write transaction of each: <<>> or <<[symbols, refs]>>
    rb_tables,      \* the store file holds the tables symbols, refs, meta
    rb_ret,         \* what each process's query returned: [raised, results]
    \* ---- hook.py: the git hook file
    hk_hist,        \* the file before the first command and after each: <<>> absent, <<text>>
    hk_ops,         \* the commands run so far: "install" | "remove"
    \* ---- generate.py: a workspace over several runs
    g_out,          \* html/index.html and xml/index.xml: [exists, good, at]
    g_cache,        \* "generated_at" of the cache file, 0 when it has none
    g_src,          \* the newest mtime among the source files
    g_now,          \* the clock
    g_last,         \* <<the run just made: [force, no_html, no_xml, outcome]>>, <<>> when
                    \* a source file changed since
    \* ---- analyze.py: extract_include_edges on one C file
    inc_text,       \* the file: its preprocessor lines in order
    inc_edges,      \* <<the "condition" of each include edge, in order>>, <<>> before
    \* ---- search_index.py: invocations on one unchanged workspace
    si_md,          \* indexing.md: <<>> when absent, else <<its table rows>>
    si_last         \* <<the last invocation: [name, type, exact, rebuilt, raised, results]>>

cgVars == <<cg_syms, cg_name, cg_depth, cg_dir, cg_exclude, cg_macros, max_nodes,
            visited, node_count, cg_stack, cg_result, cg_full, cg_pc>>

xmlVars == <<xml_index, xml_docs, xml_members>>
ixVars == <<x_index, x_all_symbols, ix_op, ix_arg, ix_scope, ix_xml, ix_sql>>

lsVars == <<ls_backend, ls_kind, ls_ret>>
pgVars == <<pg_items, pg_limit, pg_offset, pg_acc, pg_meta, pg_pc>>
rbVars == <<rb_pc, rb_txn, rb_tables, rb_ret>>
hkVars == <<hk_hist, hk_ops>>
genVars == <<g_out, g_cache, g_src, g_now, g_last>>
incVars == <<inc_text, inc_edges>>
siVars == <<si_md, si_last>>
restVars == <<rbVars, hkVars, genVars, incVars, siVars>>
stVars == <<xml_mtime, now, st_last, restVars>>

vars == <<cgVars, xmlVars, ixVars, db, lsVars, pgVars, stVars>>

(***************************************************************************)
(* Bounds of the model.                                                     *)
(***************************************************************************)
MaxEdges == 2      \* references + referenced_by entries in the whole index
MaxDepth == 2      \* largest depth argument
MaxNodes == 2      \* largest max_nodes argument
MaxStack == MaxDepth + 2   \* cap on nested _traverse activations

Absent   == "<absent>"     \* a string-valued key the dict does not carry
NoLine   == 0              \* the value of "line" in a node without that key

MaxRefs  == 1      \* entries of a memberdef's <references> list

Names      == {"A", "B", "U"}        \* "U" has no record in the index
Directions == {"calls", "callers", "both"}

Null     == "<NULL>"       \* SQL NULL in a TEXT column
NullInt  == -1             \* SQL NULL in an INTEGER column

\* The values of the variables a specification does not use.
NoStore == [exists |-> FALSE, mtime |-> 0, symbols |-> <<>>, refs |-> <<>>,
            meta |-> <<>>]
NoReturn == [raised |-> "", results |-> <<>>]
IdleXml ==
    /\ xml_index = [state |-> "missing", compounds |-> <<>>]
    /\ xml_docs = <<>>
    /\ xml_members = <<>>
IdleIx ==
    /\ x_index = <<>>
    /\ x_all_symbols = <<>>
    /\ ix_op = ""
    /\ ix_arg = ""
    /\ ix_scope = ""
    /\ ix_xml = NoReturn
    /\ ix_sql = NoReturn
IdleLs ==
    /\ ls_backend = ""
    /\ ls_kind = <<>>
    /\ ls_ret = <<>>
IdlePg ==
    /\ pg_items = <<>>
    /\ pg_limit = 0
    /\ pg_offset = 0
    /\ pg_acc = <<>>
    /\ pg_meta = <<>>
    /\ pg_pc = "idle"
NoStep == [op |-> "", existed |-> FALSE, rebuilt |-> FALSE, raised |-> ""]
IdleRb ==
    /\ rb_pc = <<>>
    /\ rb_txn = <<>>
    /\ rb_tables = FALSE
    /\ rb_ret = <<>>
IdleHk ==
    /\ hk_hist = <<>>
    /\ hk_ops = <<>>
IdleGen ==
    /\ g_out = <<>>
    /\ g_cache = 0
    /\ g_src = 0
    /\ g_now = 0
    /\ g_last = <<>>
IdleInc ==
    /\ inc_text = <<>>
    /\ inc_edges = <<>>
IdleSi ==
    /\ si_md = <<>>
    /\ si_last = <<>>
IdleRest ==
    /\ IdleRb
    /\ IdleHk
    /\ IdleGen
    /\ IdleInc
    /\ IdleSi
IdleSt ==
    /\ xml_mtime = <<>>
    /\ now = 0
    /\ st_last = NoStep
    /\ IdleRest
IdleCg ==
    /\ cg_syms = <<>>
    /\ cg_name = ""
    /\ cg_depth = 0
    /\ cg_dir = "both"
    /\ cg_exclude = {}
    /\ cg_macros = FALSE
    /\ max_nodes = 0
    /\ visited = {}
    /\ node_count = 0
    /\ cg_stack = <<>>
    /\ cg_result = <<>>
    /\ cg_full = <<>>
    /\ cg_pc = "idle"

(***************************************************************************)
(* build_callgraph                                                          *)
(***************************************************************************)

\* query.py:460  node = {"name": fname, "calls": [], "callers": []}
NewNode(fname) ==
    [name |-> fname, calls |-> <<>>, callers |-> <<>>,
     kind |-> Absent, file |-> Absent, line |-> NoLine, cycle |-> FALSE]

\* query.py:487  {"name": ref, "calls": [], "callers": [], "cycle": True}
CycleNode(ref) == [NewNode(ref) EXCEPT !.cycle = TRUE]

\* query.py:463  max_nodes > 0 and node_count[0] >= max_nodes
BudgetExhausted(count) == max_nodes > 0 /\ count >= max_nodes

\* query.py:468  syms = self.find_symbol(fname)
FindSymbol(fname) == cg_syms[fname]

\* query.py:472  sym = syms[0]
FirstSymbol(fname) == FindSymbol(fname)[1]

\* _traverse without its depth test and without visited.add(fname): nothing
\* stops the recursion on a cyclic graph.
Prologue_Unguarded(fname, d, vis, count) ==
    LET node == NewNode(fname)
        sym  == FirstSymbol(fname)
    IN  IF BudgetExhausted(count)
        THEN [expand |-> FALSE, node |-> node, visited |-> vis, count |-> count]
        ELSE IF FindSymbol(fname) = <<>>
        THEN [expand |-> FALSE, node |-> node, visited |-> vis, count |-> count + 1]
        ELSE [expand |-> TRUE,
              node |-> [node EXCEPT !.kind = sym.kind, !.file = sym.file,
                                    !.line = sym.line],
              visited |-> vis, count |-> count + 1]

\* _traverse without its test of exclude_kinds.
Prologue_NoExclude(fname, d, vis, count) ==
    LET node == NewNode(fname) IN
    IF d <= 0 \/ fname \in vis
    THEN [expand |-> FALSE, node |-> node, visited |-> vis, count |-> count]
    ELSE IF BudgetExhausted(count)
    THEN [expand |-> FALSE, node |-> node, visited |-> vis, count |-> count]
    ELSE LET sym == FirstSymbol(fname) IN
         IF FindSymbol(fname) = <<>>
         THEN [expand |-> FALSE, node |-> node, visited |-> vis \cup {fname},
               count |-> count + 1]
         ELSE [expand |-> TRUE,
               node |-> [node EXCEPT !.kind = sym.kind, !.file = sym.file,
                                     !.line = sym.line],
               visited |-> vis \cup {fname}, count |-> count + 1]

\* _traverse with the depth test d < 0 in place of d <= 0.
Prologue_DepthOffByOne(fname, d, vis, count) ==
    LET node == NewNode(fname) IN
    IF d < 0 \/ fname \in vis
    THEN [expand |-> FALSE, node |-> node, visited |-> vis, count |-> count]
    ELSE IF BudgetExhausted(count)
    THEN [expand |-> FALSE, node |-> node, visited |-> vis, count |-> count]
    ELSE LET sym == FirstSymbol(fname) IN
         IF FindSymbol(fname) = <<>>
            \/ (cg_exclude # {} /\ sym.kind \in cg_exclude)
         THEN [expand |-> FALSE, node |-> node, visited |-> vis \cup {fname},
               count |-> count + 1]
         ELSE [expand |-> TRUE,
               node |-> [node EXCEPT !.kind = sym.kind, !.file = sym.file,
                                     !.line = sym.line],
               visited |-> vis \cup {fname}, count |-> count + 1]

\* query.py:460-478  the part of _traverse before its loops, for a call
\* _traverse(fname, d, dir_) made with the closure state (vis, count):
\* either the call returns its node at once (expand = FALSE) or it goes on
\* to the loops over the symbol's edges (expand = TRUE).
Prologue(fname, d, vis, count) ==
    LET node == NewNode(fname) IN
    IF d <= 0 \/ fname \in vis
    THEN [expand |-> FALSE, node |-> node, visited |-> vis, count |-> count]
    ELSE IF BudgetExhausted(count)
    THEN [expand |-> FALSE, node |-> node, visited |-> vis, count |-> count]
    ELSE LET vis2 == vis \cup {fname}
             cnt2 == count + 1
             sym  == FirstSymbol(fname)
         IN  IF FindSymbol(fname) = <<>>
             THEN [expand |-> FALSE, node |-> node, visited |-> vis2, count |-> cnt2]
             ELSE IF cg_exclude # {} /\ sym.kind \in cg_exclude
             THEN [expand |-> FALSE, node |-> node, visited |-> vis2, count |-> cnt2]
             ELSE [expand |-> TRUE,
                   node |-> [node EXCEPT !.kind = sym.kind, !.file = sym.file,
                                         !.line = sym.line],
                   visited |-> vis2, count |-> cnt2]

\* query.py:480,489  which loop an activation runs first / after "calls"
FirstPhase(dir) == IF dir \in {"calls", "both"} THEN "calls" ELSE "callers"
AfterCalls(dir) == IF dir \in {"callers", "both"} THEN "callers" ELSE "end"
NextPhase(phase, dir) == IF phase = "calls" THEN AfterCalls(dir) ELSE "end"

\* An activation of _traverse that has reached its loops.
Frame(fname, d, node) ==
    [name |-> fname, d |-> d, node |-> node,
     phase |-> FirstPhase(cg_dir), i |-> 1]

\* query.py:481,490  the list the running loop iterates
EdgeList(f) ==
    IF f.phase = "calls" THEN FirstSymbol(f.name).references
    ELSE FirstSymbol(f.name).referenced_by

Top == cg_stack[Len(cg_stack)]
InLoop == cg_pc = "run" /\ cg_stack # <<>> /\ Top.phase \in {"calls", "callers"}
HasNext == InLoop /\ Top.i <= Len(EdgeList(Top))
Ref == EdgeList(Top)[Top.i]

\* query.py:485,494  node["calls"].append(child) / node["callers"].append(child)
Append1(f, child) ==
    IF f.phase = "calls"
    THEN [f EXCEPT !.node.calls = Append(@, child), !.i = @ + 1]
    ELSE [f EXCEPT !.node.callers = Append(@, child), !.i = @ + 1]

SetTop(f) == [cg_stack EXCEPT ![Len(cg_stack)] = f]
Pop == SubSeq(cg_stack, 1, Len(cg_stack) - 1)

\* A _meta whose truncated flag lacks the max_nodes > 0 test.
Meta_NoUnlimited(count) ==
    LET truncated == count >= max_nodes IN
    [total_nodes |-> count, max_nodes |-> max_nodes, truncated |-> truncated,
     hint |-> IF truncated THEN <<max_nodes * 2>> ELSE <<>>]

\* query.py:501-511  the _meta dict
Meta(count) ==
    LET truncated == max_nodes > 0 /\ count >= max_nodes IN
    [total_nodes |-> count, max_nodes |-> max_nodes, truncated |-> truncated,
     hint |-> IF truncated THEN <<max_nodes * 2>> ELSE <<>>]

\* query.py:500-512  result = _traverse(...); result["_meta"] = {...}
Result(node, count) == [tree |-> node, meta |-> Meta(count)]

cgInputs == <<cg_syms, cg_name, cg_depth, cg_dir, cg_exclude, cg_macros, xmlVars, ixVars,
              db,
              lsVars, pgVars, stVars>>

\* query.py:456-457,500  build_callgraph starts: the outermost _traverse call
CgStart ==
    /\ cg_pc = "start"
    /\ LET p == Prologue(cg_name, cg_depth, {}, 0) IN
       /\ visited' = p.visited
       /\ node_count' = p.count
       /\ IF p.expand
          THEN /\ cg_stack' = <<Frame(cg_name, cg_depth, p.node)>>
               /\ cg_pc' = "run"
               /\ cg_result' = <<>>
          ELSE /\ cg_stack' = <<>>
               /\ cg_pc' = "done"
               /\ cg_result' = <<Result(p.node, p.count)>>
    /\ UNCHANGED <<cgInputs, max_nodes, cg_full>>

\* query.py:482-483,491-492  the budget check at the head of an iteration
CgBreak ==
    /\ HasNext
    /\ BudgetExhausted(node_count)
    /\ cg_stack' = SetTop([Top EXCEPT !.phase = NextPhase(Top.phase, cg_dir), !.i = 1])
    /\ UNCHANGED <<cgInputs, max_nodes, visited, node_count, cg_result, cg_full, cg_pc>>

\* query.py:486-487,495-496  a name already visited becomes a cycle leaf
CgCycle ==
    /\ HasNext
    /\ ~BudgetExhausted(node_count)
    /\ Ref \in visited
    /\ cg_stack' = SetTop(Append1(Top, CycleNode(Ref)))
    /\ UNCHANGED <<cgInputs, max_nodes, visited, node_count, cg_result, cg_full, cg_pc>>

\* query.py:484-485,493-494  _traverse(ref, d - 1, dir_) returns before its loops
CgLeaf ==
    /\ HasNext
    /\ ~BudgetExhausted(node_count)
    /\ Ref \notin visited
    /\ LET p == Prologue(Ref, Top.d - 1, visited, node_count) IN
       /\ ~p.expand
       /\ visited' = p.visited
       /\ node_count' = p.count
       /\ cg_stack' = SetTop(Append1(Top, p.node))
    /\ UNCHANGED <<cgInputs, max_nodes, cg_result, cg_full, cg_pc>>

\* query.py:484-485,493-494  _traverse(ref, d - 1, dir_) goes on to its loops
CgDescend ==
    /\ HasNext
    /\ ~BudgetExhausted(node_count)
    /\ Ref \notin visited
    /\ Len(cg_stack) < MaxStack
    /\ LET p == Prologue(Ref, Top.d - 1, visited, node_count) IN
       /\ p.expand
       /\ visited' = p.visited
       /\ node_count' = p.count
       /\ cg_stack' = Append(cg_stack, Frame(Ref, Top.d - 1, p.node))
    /\ UNCHANGED <<cgInputs, max_nodes, cg_result, cg_full, cg_pc>>

\* query.py:481,490  a for loop runs out of entries
CgLoopEnd ==
    /\ InLoop
    /\ Top.i > Len(EdgeList(Top))
    /\ cg_stack' = SetTop([Top EXCEPT !.phase = NextPhase(Top.phase, cg_dir), !.i = 1])
    /\ UNCHANGED <<cgInputs, max_nodes, visited, node_count, cg_result, cg_full, cg_pc>>

\* query.py:498,485,494  return node, appended by the calling activation
CgReturn ==
    /\ cg_pc = "run"
    /\ Len(cg_stack) > 1
    /\ Top.phase = "end"
    /\ LET parent == cg_stack[Len(cg_stack) - 1] IN
       cg_stack' = [Pop EXCEPT ![Len(cg_stack) - 1] = Append1(parent, Top.node)]
    /\ UNCHANGED <<cgInputs, max_nodes, visited, node_count, cg_result, cg_full, cg_pc>>

\* query.py:498,500-512  the outermost _traverse returns; _meta is attached
CgFinish ==
    /\ cg_pc = "run"
    /\ Len(cg_stack) = 1
    /\ Top.phase = "end"
    /\ cg_stack' = <<>>
    /\ cg_result' = <<Result(Top.node, node_count)>>
    /\ cg_pc' = "done"
    /\ UNCHANGED <<cgInputs, max_nodes, visited, node_count, cg_full>>

\* The same call is made again with a node budget: the unbounded call's
\* result is kept for comparison.
CgAgain ==
    /\ cg_pc = "done"
    /\ cg_full = <<>>
    /\ \E n \in 1..MaxNodes : max_nodes' = n
    /\ cg_full' = cg_result
    /\ cg_result' = <<>>
    /\ visited' = {}
    /\ node_count' = 0
    /\ cg_stack' = <<>>
    /\ cg_pc' = "start"
    /\ UNCHANGED cgInputs

\* query.py:1001-1012  cmd_callgraph: the exclude_kinds set it passes, from
\* --include-macros and --exclude-kinds (<<>> for None, else <<the kinds>>);
\* the empty set stands for the None the code converts it to
ExcludeKinds(include_macros, extra_excludes) ==
    LET base == IF include_macros THEN {} ELSE {"define"} IN
    IF extra_excludes # <<>> /\ extra_excludes[1] # {}
    THEN base \cup extra_excludes[1]
    ELSE base

\* The values of --exclude-kinds: not given, given without a kind, define.
ExtraExcludes == {<<>>, <<{}>>, <<{"define"}>>}

\* The edge lists of the index: sequences of names.
EdgeLists == UNION {[1..n -> Names] : n \in 0..MaxEdges}

\* SymbolInfo as find_symbol returns it, reduced to the fields _traverse reads.
CgSymbol(kind, line, refs, refby) ==
    [kind |-> kind, file |-> "a.c", line |-> line,
     references |-> refs, referenced_by |-> refby]

\* The index holds the functions A and B (B possibly a macro) and no record
\* for U; the edge lists are references of A and B and referenced_by of A.
\* Macros are excluded only where the index holds one.
InitCG ==
    /\ \E ra \in EdgeLists, rb \in EdgeLists, ca \in EdgeLists,
          kb \in {"function", "define"} :
          /\ Len(ra) + Len(rb) + Len(ca) <= MaxEdges
          /\ cg_syms = [n \in Names |->
                          IF n = "A" THEN <<CgSymbol("function", 1, ra, ca)>>
                          ELSE IF n = "B" THEN <<CgSymbol(kb, 2, rb, <<>>)>>
                          ELSE <<>>]
    /\ cg_name \in Names
    /\ cg_depth \in (-1)..MaxDepth
    /\ cg_dir \in Directions
    /\ cg_macros \in BOOLEAN
    /\ \E extra \in ExtraExcludes : cg_exclude = ExcludeKinds(cg_macros, extra)
    /\ cg_exclude # {} => cg_syms["B"][1].kind = "define"
    /\ max_nodes = 0
    /\ visited = {}
    /\ node_count = 0
    /\ cg_stack = <<>>
    /\ cg_result = <<>>
    /\ cg_full = <<>>
    /\ cg_pc = "start"
    /\ IdleXml
    /\ IdleIx
    /\ db = NoStore
    /\ IdleLs
    /\ IdlePg
    /\ IdleSt

NextCG ==
    \/ CgStart
    \/ CgBreak
    \/ CgCycle
    \/ CgLeaf
    \/ CgDescend
    \/ CgLoopEnd
    \/ CgReturn
    \/ CgFinish
    \/ CgAgain

SpecCG == InitCG /\ [][NextCG]_vars

\* build_callgraph is straight-line, single-threaded code: every enabled step
\* is taken.
SpecCGLive == InitCG /\ [][NextCG]_vars /\ WF_vars(NextCG)

(***************************************************************************)
(* The XML documents                                                        *)
(*                                                                          *)
(* index.xml is [state, compounds]: state is "ok", "missing" or "malformed" *)
(* (not well-formed XML); compounds is the list of <compound> elements,     *)
(* each [refid, kind, name, members], members the list of <member>          *)
(* elements [refid, kind, name].                                            *)
(* <refid>.xml is [state, def, members]: def is <<>> when the document has  *)
(* no <compounddef>, else <<[loc, brief]>> with loc <<>> or <<[file,       *)
(* line]>>; members lists the ids of its <memberdef> elements in document   *)
(* order (in a malformed document: those before the syntax error).          *)
(* A <memberdef> is the same element wherever its id occurs: xml_members    *)
(* gives it per id. Attribute values read with int() are kept as text.      *)
(***************************************************************************)
CompoundIds == {"c1", "c2"}
MemberIds   == {"m1", "m2"}

\* query.py:107  memberdef.get("id", ""): the id of a memberdef without one
NoId == ""

\* int(text): the texts the documents use, "x" being no number.
IsInt(text) == text \in {"0", "3", "7"}
ParseInt(text) == IF text = "3" THEN 3 ELSE IF text = "7" THEN 7 ELSE 0

\* query.py:40-55  SymbolInfo (the fields both backends fill differently or
\* that queries read; body_start, body_end, return_type, params and detailed
\* are copied like brief)
SymbolInfo(id, name, kind) ==
    [id |-> id, name |-> name, kind |-> kind, file |-> "", line |-> 0,
     brief |-> "", references |-> <<>>, referenced_by |-> <<>>]

Raise(err) == [raised |-> err, results |-> <<>>]
Return(list) == [raised |-> "", results |-> list]

\* query.py:104-142  _parse_memberdef_element
ParseMemberdef(id) ==
    LET m == xml_members[id] IN
    IF ~IsInt(m.line) THEN Raise("ValueError")
    ELSE Return(<<[SymbolInfo(id, m.name, m.kind) EXCEPT
                     !.file = m.file, !.line = ParseInt(m.line),
                     !.brief = m.brief, !.references = m.references,
                     !.referenced_by = m.referenced_by]>>)

\* query.py:145-159  _iterparse_compound: the memberdefs of a document that
\* exists, in order, up to a syntax error of the document
IterparseCompound(refid) == xml_docs[refid].members

\* query.py:232-243  the entries of one compound's <member> elements
RECURSIVE MemberEntries(_, _)
MemberEntries(members, crefid) ==
    IF members = <<>> THEN <<>>
    ELSE LET m == Head(members) IN
         (IF m.name # ""
          THEN <<[name |-> m.name, refid |-> m.refid, kind |-> m.kind,
                  compound_refid |-> crefid, is_compound |-> FALSE]>>
          ELSE <<>>)
         \o MemberEntries(Tail(members), crefid)

\* query.py:216-243  _parse_index: self._index as one list; _index[name] is
\* the sublist of the entries of that name
RECURSIVE ParseIndex(_)
ParseIndex(compounds) ==
    IF compounds = <<>> THEN <<>>
    ELSE LET c == Head(compounds) IN
         (IF c.name # ""
          THEN <<[name |-> c.name, refid |-> c.refid, kind |-> c.kind,
                  compound_refid |-> c.refid, is_compound |-> TRUE]>>
          ELSE <<>>)
         \o MemberEntries(c.members, c.refid)
         \o ParseIndex(Tail(compounds))

\* The characters of the file paths and scope prefixes the documents and
\* the queries use.
Chars(str) ==
    CASE str = ""    -> <<>>
      [] str = "a.c" -> <<"a", ".", "c">>
      [] str = "k.h" -> <<"k", ".", "h">>
      [] str = "a"   -> <<"a">>
      [] str = "A"   -> <<"A">>
      [] str = "k"   -> <<"k">>
      [] str = "_"   -> <<"_">>

\* str.startswith(prefix)
StartsWith(str, prefix) ==
    LET t == Chars(str)
        q == Chars(prefix)
    IN  Len(q) <= Len(t) /\ SubSeq(t, 1, Len(q)) = q

\* The case folding of SQLite's LIKE (ASCII letters only)
Lower(ch) == IF ch = "A" THEN "a" ELSE IF ch = "K" THEN "k" ELSE ch

\* text LIKE pattern: % matches any run of characters, _ any one character,
\* every other character itself up to ASCII case
RECURSIVE LikeMatch(_, _)
LikeMatch(text, pat) ==
    IF pat = <<>> THEN text = <<>>
    ELSE IF Head(pat) = "%"
    THEN LikeMatch(text, Tail(pat)) \/ (text # <<>> /\ LikeMatch(Tail(text), pat))
    ELSE IF text = <<>> THEN FALSE
    ELSE IF Head(pat) = "_" THEN LikeMatch(Tail(text), Tail(pat))
    ELSE Lower(Head(pat)) = Lower(Head(text)) /\ LikeMatch(Tail(text), Tail(pat))

\* query.py:716-717, 729-730, 816-817  file LIKE scope + "%" (NULL LIKE ...
\* is not true)
Like(file, scope) == file # Null /\ LikeMatch(Chars(file), Chars(scope) \o <<"%">>)

\* sorted(files) / ORDER BY file
FileOrder == <<"a.c", "k.h">>
SortedFiles(S) == SelectSeq(FileOrder, LAMBDA f : f \in S)

(***************************************************************************)
(* DoxygenXMLIndex                                                          *)
(***************************************************************************)
IsName(e, name) == e.name = name

\* query.py:270  entries = self._index.get(name, [])
IndexGet(name) == SelectSeq(x_index, LAMBDA e : IsName(e, name))

\* query.py:274-293  find_symbol, the branch of a compound entry
XmlFindCompound(entry, name) ==
    LET doc == xml_docs[entry.compound_refid] IN
    IF doc.state = "missing" THEN Return(<<>>)
    ELSE IF doc.state = "malformed" THEN Raise("ParseError")
    ELSE IF doc.def = <<>> THEN Return(<<>>)
    ELSE LET cdef == doc.def[1]
             sym  == SymbolInfo(entry.refid, name, entry.kind)
         IN  IF cdef.loc = <<>>
             THEN Return(<<[sym EXCEPT !.brief = cdef.brief]>>)
             ELSE IF ~IsInt(cdef.loc[1].line) THEN Raise("ValueError")
             ELSE Return(<<[sym EXCEPT !.file = cdef.loc[1].file,
                                       !.line = ParseInt(cdef.loc[1].line),
                                       !.brief = cdef.brief]>>)

\* query.py:295-304  find_symbol, the branch of a member entry
XmlFindMember(entry) ==
    LET doc == xml_docs[entry.compound_refid] IN
    IF doc.state = "missing" THEN Return(<<>>)
    ELSE IF doc.state = "malformed" THEN Raise("ParseError")
    ELSE IF \E k \in 1..Len(doc.members) : doc.members[k] = entry.refid
    THEN ParseMemberdef(entry.refid)
    ELSE Return(<<>>)

\* query.py:273-306  the loop of find_symbol over the entries (scope = "")
RECURSIVE XmlFindEntries(_, _, _)
XmlFindEntries(entries, name, results) ==
    IF entries = <<>> THEN Return(results)
    ELSE LET entry == Head(entries)
             one == IF entry.is_compound THEN XmlFindCompound(entry, name)
                    ELSE XmlFindMember(entry)
         IN  IF one.raised # "" THEN one
             ELSE XmlFindEntries(Tail(entries), name, results \o one.results)

\* query.py:263-306  DoxygenXMLIndex.find_symbol(name)
XmlFindSymbol(name) == XmlFindEntries(IndexGet(name), name, <<>>)

\* query.py:327-331  the compounds that have member entries (a set in the
\* code; here in the order of their first entry)
RECURSIVE CompoundsWithMembers(_, _)
CompoundsWithMembers(entries, seen) ==
    IF entries = <<>> THEN <<>>
    ELSE LET e == Head(entries) IN
         IF ~e.is_compound /\ e.compound_refid \notin seen
         THEN <<e.compound_refid>>
              \o CompoundsWithMembers(Tail(entries), seen \cup {e.compound_refid})
         ELSE CompoundsWithMembers(Tail(entries), seen)

\* query.py:338-341  the loop over one document's memberdefs
RECURSIVE XmlCollect(_, _)
XmlCollect(ids, symbols) ==
    IF ids = <<>> THEN Return(symbols)
    ELSE LET one == ParseMemberdef(Head(ids)) IN
         IF one.raised # "" THEN one
         ELSE LET sym == one.results[1] IN
              IF sym.id # "" /\ ~(\E k \in 1..Len(symbols) : symbols[k].id = sym.id)
              THEN XmlCollect(Tail(ids), Append(symbols, sym))
              ELSE XmlCollect(Tail(ids), symbols)

\* query.py:334-341  the loop over the compound documents
RECURSIVE XmlCollectAll(_, _)
XmlCollectAll(refids, symbols) ==
    IF refids = <<>> THEN Return(symbols)
    ELSE IF xml_docs[Head(refids)].state = "missing"
    THEN XmlCollectAll(Tail(refids), symbols)
    ELSE LET one == XmlCollect(IterparseCompound(Head(refids)), symbols) IN
         IF one.raised # "" THEN one
         ELSE XmlCollectAll(Tail(refids), one.results)

\* query.py:308-346  DoxygenXMLIndex.get_all_symbols() (scope = ""): the
\* cached list, or the list parsed now
XmlGetAllSymbols ==
    IF x_all_symbols # <<>> THEN Return(x_all_symbols[1])
    ELSE XmlCollectAll(CompoundsWithMembers(x_index, {}), <<>>)

\* query.py:343  self._all_symbols = symbols
CacheAfter(ret) ==
    IF x_all_symbols = <<>> /\ ret.raised = "" THEN <<ret.results>>
    ELSE x_all_symbols

\* sorted(kinds): the kinds of the documents in ascending order
KindOrder == <<"", "class", "define", "file", "function", "namespace",
               "struct", "union", "variable">>
SortedSeq(S) == SelectSeq(KindOrder, LAMBDA k : k \in S)

\* query.py:352-358  DoxygenXMLIndex.get_all_kinds
XmlGetAllKinds == SortedSeq({x_index[k].kind : k \in 1..Len(x_index)})

\* query.py:409-418, 180-190  the member summaries of a document's
\* memberdefs, in document order (the type is copied like the brief)
RECURSIVE MemberSummaries(_, _)
MemberSummaries(ids, members) ==
    IF ids = <<>> THEN Return(members)
    ELSE LET m == xml_members[Head(ids)] IN
         IF ~IsInt(m.line) THEN Raise("ValueError")
         ELSE MemberSummaries(Tail(ids),
                  Append(members, [name |-> m.name, kind |-> m.kind,
                                   brief |-> m.brief, line |-> ParseInt(m.line)]))

\* query.py:394-420  the dict get_members returns
MembersResult(name, kind, file, line, brief, members) ==
    [name |-> name, kind |-> kind, file |-> file, line |-> line,
     brief |-> brief, members |-> members]

IsCompoundEntry(e) == e.is_compound

\* query.py:377-422  DoxygenXMLIndex.get_members(compound_name); the result
\* list is empty for None
XmlGetMembers(name) ==
    LET compound_entries == SelectSeq(IndexGet(name), IsCompoundEntry) IN
    IF compound_entries = <<>> THEN Return(<<>>)
    ELSE LET entry == compound_entries[1]
             doc == xml_docs[entry.compound_refid]
         IN  IF doc.state = "missing" THEN Return(<<>>)
             ELSE IF doc.state = "malformed" THEN Raise("ParseError")
             ELSE IF doc.def = <<>> THEN Return(<<>>)
             ELSE LET cdef == doc.def[1]
                      ms == MemberSummaries(doc.members, <<>>)
                  IN  IF cdef.loc # <<>> /\ ~IsInt(cdef.loc[1].line)
                      THEN Raise("ValueError")
                      ELSE IF ms.raised # "" THEN ms
                      ELSE Return(<<MembersResult(name, entry.kind,
                               IF cdef.loc = <<>> THEN "" ELSE cdef.loc[1].file,
                               IF cdef.loc = <<>> THEN 0 ELSE ParseInt(cdef.loc[1].line),
                               cdef.brief, ms.results)>>)

\* query.py:291,301,320,345  scope and not sym.file.startswith(scope)
OutOfScope(sym, scope) == scope # "" /\ ~StartsWith(sym.file, scope)

\* query.py:263-306  DoxygenXMLIndex.find_symbol(name, scope): each record
\* is parsed and then tested against the scope
XmlFindSymbolScoped(name, scope) ==
    LET r == XmlFindSymbol(name) IN
    IF r.raised # "" THEN r
    ELSE Return(SelectSeq(r.results, LAMBDA sym : ~OutOfScope(sym, scope)))

\* query.py:308-346  DoxygenXMLIndex.get_all_symbols(scope)
XmlGetAllSymbolsScoped(scope) ==
    LET r == XmlGetAllSymbols IN
    IF r.raised # "" THEN r
    ELSE Return(SelectSeq(r.results, LAMBDA sym : ~OutOfScope(sym, scope)))

\* query.py:424-432  DoxygenXMLIndex.get_all_files(scope)
XmlGetAllFiles(scope) ==
    LET r == XmlGetAllSymbols IN
    IF r.raised # "" THEN r
    ELSE Return(SortedFiles({r.results[k].file : k \in
                    {j \in 1..Len(r.results) :
                        /\ r.results[j].file # ""
                        /\ ~OutOfScope(r.results[j], scope)}}))

(***************************************************************************)
(* DoxygenSQLiteIndex                                                       *)
(*                                                                          *)
(* The tables are lists of rows in rowid order. A build works on tables     *)
(* [raised, symbols, refs]; raised names the exception that ended it. The   *)
(* queries take the store their instance is connected to as `self`.         *)
(***************************************************************************)
\* query.py:653  compound_loc_kinds
LocKinds == {"struct", "class", "union", "namespace"}

\* query.py:563-599  the tables after the DROP TABLE / CREATE TABLE script
EmptyTables == [raised |-> "", symbols |-> <<>>, refs |-> <<>>]

HasId(rows, id) == \E k \in 1..Len(rows) : rows[k].id = id

\* INSERT OR IGNORE INTO symbols: id is the primary key
InsertOrIgnore(rows, row) == IF HasId(rows, row.id) THEN rows ELSE Append(rows, row)

\* query.py:617-620  the row of a compound: only id, name, kind are given
CompoundRow(c) ==
    [id |-> c.refid, name |-> c.name, kind |-> c.kind, file |-> Null,
     line |-> NullInt, brief |-> Null, is_compound |-> 1]

\* query.py:632-640  the row of a member
MemberRow(sym) ==
    [id |-> sym.id, name |-> sym.name, kind |-> sym.kind, file |-> sym.file,
     line |-> sym.line, brief |-> sym.brief, is_compound |-> 0]

\* query.py:641-650  one refs row per entry of a list
RefRows(id, names, direction) ==
    [k \in 1..Len(names) |->
        [from_id |-> id, to_name |-> names[k], direction |-> direction]]

\* query.py:612-620  the compound rows, in the order of index.xml
RECURSIVE InsertCompounds(_, _)
InsertCompounds(compounds, rows) ==
    IF compounds = <<>> THEN rows
    ELSE LET c == Head(compounds) IN
         InsertCompounds(Tail(compounds),
                         IF c.name # "" THEN InsertOrIgnore(rows, CompoundRow(c))
                         ELSE rows)

\* query.py:623-624  compound_refids (a set in the code; here in the order
\* of index.xml)
RECURSIVE CompoundRefids(_, _)
CompoundRefids(compounds, seen) ==
    IF compounds = <<>> THEN <<>>
    ELSE LET c == Head(compounds) IN
         IF c.members # <<>> /\ c.refid \notin seen
         THEN <<c.refid>> \o CompoundRefids(Tail(compounds), seen \cup {c.refid})
         ELSE CompoundRefids(Tail(compounds), seen)

\* query.py:631-650  the loop over one document's memberdefs
RECURSIVE InsertMembers(_, _)
InsertMembers(ids, t) ==
    IF ids = <<>> THEN t
    ELSE LET one == ParseMemberdef(Head(ids)) IN
         IF one.raised # "" THEN [t EXCEPT !.raised = one.raised]
         ELSE LET sym == one.results[1] IN
              InsertMembers(Tail(ids),
                  [t EXCEPT !.symbols = InsertOrIgnore(@, MemberRow(sym)),
                            !.refs = @ \o RefRows(sym.id, sym.references, "calls")
                                       \o RefRows(sym.id, sym.referenced_by, "callers")])

\* query.py:627-650  the loop over the compound documents
RECURSIVE InsertDocuments(_, _)
InsertDocuments(refids, t) ==
    IF refids = <<>> \/ t.raised # "" THEN t
    ELSE IF xml_docs[Head(refids)].state = "missing"
    THEN InsertDocuments(Tail(refids), t)
    ELSE InsertDocuments(Tail(refids),
                         InsertMembers(IterparseCompound(Head(refids)), t))

\* UPDATE symbols SET file=?, line=? WHERE id=?
UpdateLocation(rows, id, file, line) ==
    [k \in 1..Len(rows) |->
        IF rows[k].id = id THEN [rows[k] EXCEPT !.file = file, !.line = line]
        ELSE rows[k]]

\* query.py:654-674  the locations of struct, class, union and namespace
\* compounds
RECURSIVE UpdateCompounds(_, _)
UpdateCompounds(compounds, t) ==
    IF compounds = <<>> \/ t.raised # "" THEN t
    ELSE LET c == Head(compounds)
             doc == xml_docs[c.refid]
             rest == Tail(compounds)
         IN  IF c.kind \notin LocKinds THEN UpdateCompounds(rest, t)
             ELSE IF doc.state # "ok" THEN UpdateCompounds(rest, t)
             ELSE IF doc.def = <<>> THEN UpdateCompounds(rest, t)
             ELSE IF doc.def[1].loc = <<>> THEN UpdateCompounds(rest, t)
             ELSE LET loc == doc.def[1].loc[1] IN
                  IF ~IsInt(loc.line) THEN [t EXCEPT !.raised = "ValueError"]
                  ELSE IF loc.file = "" THEN UpdateCompounds(rest, t)
                  ELSE UpdateCompounds(rest,
                          [t EXCEPT !.symbols =
                              UpdateLocation(@, c.refid, loc.file, ParseInt(loc.line))])

\* query.py:601-674  _build_db after the tables are recreated: the rows it
\* inserts, or the exception that ends it
BuildRows ==
    IF xml_index.state = "missing" THEN [EmptyTables EXCEPT !.raised = "FileNotFoundError"]
    ELSE IF xml_index.state = "malformed" THEN [EmptyTables EXCEPT !.raised = "ParseError"]
    ELSE LET t1 == [EmptyTables EXCEPT
                       !.symbols = InsertCompounds(xml_index.compounds, <<>>)]
             t2 == InsertDocuments(CompoundRefids(xml_index.compounds, {}), t1)
         IN  UpdateCompounds(xml_index.compounds, t2)

\* query.py:560-681  _build_db at time `at`: the tables are dropped and
\* recreated at once (executescript commits); the rows and the built_at
\* entry are committed together at the end, and are rolled back when an
\* exception ends the build before.
BuildDb(at) ==
    LET t == BuildRows IN
    IF t.raised = ""
    THEN [exists |-> TRUE, mtime |-> at, symbols |-> t.symbols, refs |-> t.refs,
          meta |-> <<"built_at">>]
    ELSE [exists |-> TRUE, mtime |-> at, symbols |-> <<>>, refs |-> <<>>,
          meta |-> <<>>]

IsDirection(r, id, direction) == r.from_id = id /\ r.direction = direction

\* SELECT to_name FROM refs WHERE from_id=? AND direction=?
RefNames(self, id, direction) ==
    LET rows == SelectSeq(self.refs, LAMBDA r : IsDirection(r, id, direction))
    IN  [k \in 1..Len(rows) |-> rows[k].to_name]

\* query.py:685-710  _row_to_symbol
RowToSymbol(self, row) ==
    [id |-> row.id, name |-> row.name, kind |-> row.kind,
     file |-> IF row.file = Null THEN "" ELSE row.file,
     line |-> IF row.line = NullInt THEN 0 ELSE row.line,
     brief |-> IF row.brief = Null THEN "" ELSE row.brief,
     references |-> RefNames(self, row.id, "calls"),
     referenced_by |-> RefNames(self, row.id, "callers")]

RowsToSymbols(self, rows) == [k \in 1..Len(rows) |-> RowToSymbol(self, rows[k])]

\* query.py:712-723  DoxygenSQLiteIndex.find_symbol(name) (scope = "")
SqlFindSymbol(self, name) ==
    Return(RowsToSymbols(self, SelectSeq(self.symbols, LAMBDA r : IsName(r, name))))

IsMember(r) == r.is_compound = 0

\* query.py:725-736  DoxygenSQLiteIndex.get_all_symbols() (scope = "")
SqlGetAllSymbols(self) ==
    Return(RowsToSymbols(self, SelectSeq(self.symbols, IsMember)))

\* query.py:744-748  DoxygenSQLiteIndex.get_all_kinds
SqlGetAllKinds(self) ==
    SortedSeq({self.symbols[k].kind : k \in 1..Len(self.symbols)})

\* query.py:162-194  _parse_compound_members: <<>> for None, else the list
\* of member summaries in a one-element list
ParseCompoundMembers(refid) ==
    LET doc == xml_docs[refid] IN
    IF doc.state # "ok" THEN Return(<<>>)
    ELSE IF doc.def = <<>> THEN Return(<<>>)
    ELSE LET ms == MemberSummaries(doc.members, <<>>) IN
         IF ms.raised # "" THEN ms ELSE Return(<<ms.results>>)

IsCompoundNamed(r, name) == r.name = name /\ r.is_compound = 1

\* query.py:784-808  DoxygenSQLiteIndex.get_members(compound_name)
SqlGetMembers(self, name) ==
    LET rows == SelectSeq(self.symbols, LAMBDA r : IsCompoundNamed(r, name)) IN
    IF rows = <<>> THEN Return(<<>>)
    ELSE LET row == rows[1]
             members == ParseCompoundMembers(row.id)
         IN  IF members.raised # "" THEN members
             ELSE Return(<<MembersResult(name, row.kind,
                      IF row.file = Null THEN "" ELSE row.file,
                      IF row.line = NullInt THEN 0 ELSE row.line,
                      IF row.brief = Null THEN "" ELSE row.brief,
                      IF members.results = <<>> THEN <<>>
                      ELSE members.results[1])>>)

\* query.py:712-723  DoxygenSQLiteIndex.find_symbol(name, scope)
SqlFindSymbolScoped(self, name, scope) ==
    IF scope = "" THEN SqlFindSymbol(self, name)
    ELSE Return(RowsToSymbols(self,
             SelectSeq(self.symbols,
                       LAMBDA r : r.name = name /\ (Like(r.file, scope) \/ r.file = Null))))

\* query.py:725-736  DoxygenSQLiteIndex.get_all_symbols(scope)
SqlGetAllSymbolsScoped(self, scope) ==
    IF scope = "" THEN SqlGetAllSymbols(self)
    ELSE Return(RowsToSymbols(self,
             SelectSeq(self.symbols,
                       LAMBDA r : r.is_compound = 0 /\ Like(r.file, scope))))

\* query.py:810-823  DoxygenSQLiteIndex.get_all_files(scope)
SqlGetAllFiles(self, scope) ==
    Return(SortedFiles({self.symbols[k].file : k \in
               {j \in 1..Len(self.symbols) :
                   /\ self.symbols[j].file # Null
                   /\ self.symbols[j].file # ""
                   /\ scope # "" => Like(self.symbols[j].file, scope)}}))

(***************************************************************************)
(* Both backends over the same XML documents                                *)
(***************************************************************************)
QueryNames == {"A", "B", "K1", "K2"}

RefLists == UNION {[1..n -> {"B"}] : n \in 0..MaxRefs}
IdLists  == {<<>>, <<"m1">>, <<"m2">>, <<"m1", "m2">>}   \* of compound c1
IdLists2 == {<<>>, <<"m1">>}                             \* of compound c2

\* The <member> elements index.xml lists for the ids.
MemberElems(ids) ==
    [k \in 1..Len(ids) |->
        [refid |-> ids[k], kind |-> xml_members[ids[k]].kind,
         name |-> xml_members[ids[k]].name]]

MissingDoc == [state |-> "missing", def |-> <<>>, members |-> <<>>]
CompoundDefs ==
    {<<>>,
     <<[loc |-> <<>>, brief |-> "kb"]>>,
     <<[loc |-> <<[file |-> "k.h", line |-> "7"]>>, brief |-> ""]>>,
     <<[loc |-> <<[file |-> "k.h", line |-> "7"]>>, brief |-> "kb"]>>}
OkDocs(lists) ==
    {[state |-> "ok", def |-> d, members |-> ms] : d \in CompoundDefs, ms \in lists}
MalformedDocs(lists) ==
    {[state |-> "malformed", def |-> <<>>, members |-> ms] : ms \in lists}

InitXmlDir ==
    /\ \E refs \in RefLists :
          xml_members =
             [id \in MemberIds |->
                IF id = "m1"
                THEN [name |-> "A", kind |-> "function", file |-> "a.c", line |-> "3",
                      brief |-> "", references |-> refs, referenced_by |-> <<>>]
                ELSE [name |-> "B", kind |-> "variable", file |-> "a.c", line |-> "7",
                      brief |-> "mb", references |-> <<>>, referenced_by |-> <<"A">>]]
    /\ \E k1 \in {"file", "struct"}, n2 \in {"K2", "A"}, ms1 \in IdLists, ms2 \in IdLists2 :
          LET c1 == [refid |-> "c1", kind |-> k1, name |-> "K1",
                     members |-> MemberElems(ms1)]
              c2 == [refid |-> "c2", kind |-> "struct", name |-> n2,
                     members |-> MemberElems(ms2)]
          IN  xml_index = [state |-> "ok", compounds |-> <<c1, c2>>]
    /\ \E d1 \in OkDocs(IdLists) \cup MalformedDocs(IdLists) \cup {MissingDoc},
          d2 \in OkDocs(IdLists2) \cup {MissingDoc} :
          xml_docs = [c \in CompoundIds |-> IF c = "c1" THEN d1 ELSE d2]

\* Both backends are constructed on the documents: DoxygenXMLIndex parses
\* index.xml (query.py:200-205), DoxygenSQLiteIndex finds no store and
\* builds it (query.py:524-544).
InitIdx ==
    /\ InitXmlDir
    /\ x_index = ParseIndex(xml_index.compounds)
    /\ x_all_symbols = <<>>
    /\ db = BuildDb(1)
    /\ ix_op = ""
    /\ ix_arg = ""
    /\ ix_scope = ""
    /\ ix_xml = NoReturn
    /\ ix_sql = NoReturn
    /\ IdleCg
    /\ IdleLs
    /\ IdlePg
    /\ IdleSt

\* find_symbol(name) on both backends
IxFindSymbol ==
    /\ \E name \in QueryNames :
          /\ ix_arg' = name
          /\ ix_xml' = XmlFindSymbol(name)
          /\ ix_sql' = SqlFindSymbol(db, name)
    /\ ix_op' = "find_symbol"
    /\ UNCHANGED <<cgVars, xmlVars, x_index, x_all_symbols, ix_scope, db, lsVars, pgVars,
                   stVars>>

\* get_all_symbols() on both backends
IxGetAllSymbols ==
    /\ ix_op' = "get_all_symbols"
    /\ ix_arg' = ""
    /\ ix_xml' = XmlGetAllSymbols
    /\ x_all_symbols' = CacheAfter(XmlGetAllSymbols)
    /\ ix_sql' = SqlGetAllSymbols(db)
    /\ UNCHANGED <<cgVars, xmlVars, x_index, ix_scope, db, lsVars, pgVars, stVars>>

\* get_members(name) on both backends
IxGetMembers ==
    /\ \E name \in QueryNames :
          /\ ix_arg' = name
          /\ ix_xml' = XmlGetMembers(name)
          /\ ix_sql' = SqlGetMembers(db, name)
    /\ ix_op' = "get_members"
    /\ UNCHANGED <<cgVars, xmlVars, x_index, x_all_symbols, ix_scope, db, lsVars, pgVars,
                   stVars>>

NextIdx ==
    \/ IxFindSymbol
    \/ IxGetAllSymbols
    \/ IxGetMembers

SpecIdx == InitIdx /\ [][NextIdx]_vars

(***************************************************************************)
(* Both backends queried with a scope prefix                                *)
(***************************************************************************)
Scopes == {"", "a", "A", "k", "_"}

\* find_symbol(name, scope) on both backends
ScFindSymbol ==
    /\ \E name \in QueryNames, scope \in Scopes :
          /\ ix_arg' = name
          /\ ix_scope' = scope
          /\ ix_xml' = XmlFindSymbolScoped(name, scope)
          /\ ix_sql' = SqlFindSymbolScoped(db, name, scope)
    /\ ix_op' = "find_symbol"
    /\ UNCHANGED <<cgVars, xmlVars, x_index, x_all_symbols, db, lsVars, pgVars, stVars>>

\* get_all_symbols(scope) on both backends
ScGetAllSymbols ==
    /\ \E scope \in Scopes :
          /\ ix_scope' = scope
          /\ ix_xml' = XmlGetAllSymbolsScoped(scope)
          /\ ix_sql' = SqlGetAllSymbolsScoped(db, scope)
    /\ ix_op' = "get_all_symbols"
    /\ ix_arg' = ""
    /\ x_all_symbols' = CacheAfter(XmlGetAllSymbols)
    /\ UNCHANGED <<cgVars, xmlVars, x_index, db, lsVars, pgVars, stVars>>

\* get_all_files(scope) on both backends
ScGetAllFiles ==
    /\ \E scope \in Scopes :
          /\ ix_scope' = scope
          /\ ix_xml' = XmlGetAllFiles(scope)
          /\ ix_sql' = SqlGetAllFiles(db, scope)
    /\ ix_op' = "get_all_files"
    /\ ix_arg' = ""
    /\ x_all_symbols' = CacheAfter(XmlGetAllSymbols)
    /\ UNCHANGED <<cgVars, xmlVars, x_index, db, lsVars, pgVars, stVars>>

\* The documents of InitIdx that are well-formed, the members being those of
\* compound c1.
InitScope ==
    /\ InitIdx
    /\ xml_members["m1"].references = <<>>
    /\ xml_index.compounds[2].name = "K2"
    /\ xml_index.compounds[2].members = <<>>
    /\ xml_docs["c2"].members = <<>>
    /\ \A c \in CompoundIds : xml_docs[c].state # "malformed"

NextScope ==
    \/ ScFindSymbol
    \/ ScGetAllSymbols
    \/ ScGetAllFiles

SpecScope == InitScope /\ [][NextScope]_vars

(***************************************************************************)
(* build_callgraph on both backends over the same XML documents             *)
(***************************************************************************)
\* query.py:468, 850  what self.find_symbol(fname) gives _traverse on each
\* backend, for every name the walk can ask for
XmlSymbols == [n \in Names |-> XmlFindSymbol(n).results]
SqlSymbols == [n \in Names |-> SqlFindSymbol(db, n).results]

\* DoxygenXMLIndex.build_callgraph has returned: the same call is made on
\* the DoxygenSQLiteIndex.
CbXmlReturn ==
    /\ cg_pc = "done"
    /\ ix_xml = NoReturn
    /\ ix_xml' = Return(cg_result)
    /\ cg_syms' = SqlSymbols
    /\ visited' = {}
    /\ node_count' = 0
    /\ cg_stack' = <<>>
    /\ cg_result' = <<>>
    /\ cg_pc' = "start"
    /\ UNCHANGED <<cg_name, cg_depth, cg_dir, cg_exclude, cg_macros, max_nodes, cg_full,
                   xmlVars, x_index, x_all_symbols, ix_op, ix_arg, ix_scope, ix_sql, db,
                   lsVars, pgVars, stVars>>

\* DoxygenSQLiteIndex.build_callgraph has returned.
CbSqlReturn ==
    /\ cg_pc = "done"
    /\ ix_xml # NoReturn
    /\ ix_op = ""
    /\ ix_sql' = Return(cg_result)
    /\ ix_op' = "build_callgraph"
    /\ ix_arg' = cg_name
    /\ UNCHANGED <<cgVars, xmlVars, x_index, x_all_symbols, ix_scope, ix_xml, db, lsVars,
                   pgVars, stVars>>

\* The member ids index.xml lists under the k-th compound.
ListedIds(k) ==
    LET ms == xml_index.compounds[k].members IN [j \in 1..Len(ms) |-> ms[j].refid]

\* Documents as Doxygen writes them: every compound has its document, with
\* a compounddef and the memberdefs index.xml lists for it, and no member is
\* listed twice.  Both backends are constructed and the call is first made
\* on the DoxygenXMLIndex.
InitBoth ==
    /\ InitXmlDir
    /\ xml_docs["c1"].members = ListedIds(1)
    /\ xml_docs["c2"].members = ListedIds(2)
    /\ ListedIds(2) = <<>>
    /\ \A c \in CompoundIds :
          /\ xml_docs[c].state = "ok"
          /\ xml_docs[c].def = <<[loc |-> <<[file |-> "k.h", line |-> "7"]>>, brief |-> ""]>>
    /\ x_index = ParseIndex(xml_index.compounds)
    /\ x_all_symbols = <<>>
    /\ db = BuildDb(1)
    /\ ix_op = ""
    /\ ix_arg = ""
    /\ ix_scope = ""
    /\ ix_xml = NoReturn
    /\ ix_sql = NoReturn
    /\ cg_syms = XmlSymbols
    /\ cg_name \in {"A", "B"}
    /\ cg_depth \in 1..MaxDepth
    /\ cg_dir \in Directions
    /\ cg_macros = TRUE
    /\ cg_exclude = {}
    /\ max_nodes \in {0, 1}
    /\ visited = {}
    /\ node_count = 0
    /\ cg_stack = <<>>
    /\ cg_result = <<>>
    /\ cg_full = <<>>
    /\ cg_pc = "start"
    /\ IdleLs
    /\ IdlePg
    /\ IdleSt

NextBoth ==
    \/ CgStart
    \/ CgBreak
    \/ CgCycle
    \/ CgLeaf
    \/ CgDescend
    \/ CgLoopEnd
    \/ CgReturn
    \/ CgFinish
    \/ CbXmlReturn
    \/ CbSqlReturn

SpecBoth == InitBoth /\ [][NextBoth]_vars

(***************************************************************************)
(* _paginate and a client that pages through a list                         *)
(***************************************************************************)
MaxLen   == 3      \* longest list that is paged
MaxLimit == 3      \* largest page size

PgElems == {"a", "b", "c"}

Min(a, b) == IF a < b THEN a ELSE b

\* A slice index as Python normalises it against a list of length n.
SliceIndex(i, n) ==
    IF i < 0 THEN (IF n + i < 0 THEN 0 ELSE n + i)
    ELSE IF i > n THEN n ELSE i

\* items[lo:hi]
PySlice(items, lo, hi) ==
    LET a == SliceIndex(lo, Len(items))
        b == SliceIndex(hi, Len(items))
    IN  IF a >= b THEN <<>> ELSE SubSeq(items, a + 1, b)

\* items[lo:]
PySliceFrom(items, lo) == PySlice(items, lo, Len(items))

\* A slice whose end index is taken as inclusive.
Paginate_InclusiveEnd(items, limit, offset) ==
    LET total == Len(items)
        page == IF limit > 0 THEN PySlice(items, offset, offset + limit + 1)
                ELSE PySliceFrom(items, offset)
        truncated == (offset + Len(page)) < total
        next_offset == offset + limit
        remaining == total - next_offset
    IN  [page |-> page,
         meta |-> [total |-> total, offset |-> offset, limit |-> limit,
                   truncated |-> truncated,
                   hint |-> IF truncated
                            THEN <<[next_offset |-> next_offset,
                                    next |-> Min(remaining, limit),
                                    remaining |-> remaining]>>
                            ELSE <<>>]]

\* A truncated flag that is also set when the page ends with the list.
Paginate_TruncatedAtEnd(items, limit, offset) ==
    LET total == Len(items)
        page == IF limit > 0 THEN PySlice(items, offset, offset + limit)
                ELSE PySliceFrom(items, offset)
        truncated == (offset + Len(page)) <= total
        next_offset == offset + limit
        remaining == total - next_offset
    IN  [page |-> page,
         meta |-> [total |-> total, offset |-> offset, limit |-> limit,
                   truncated |-> truncated,
                   hint |-> IF truncated
                            THEN <<[next_offset |-> next_offset,
                                    next |-> Min(remaining, limit),
                                    remaining |-> remaining]>>
                            ELSE <<>>]]

\* query.py:68-86  _paginate(items, limit, offset): the page and the meta
\* dict; hint holds the three numbers of the hint text
Paginate(items, limit, offset) ==
    LET total == Len(items)
        page == IF limit > 0 THEN PySlice(items, offset, offset + limit)
                ELSE PySliceFrom(items, offset)
        truncated == (offset + Len(page)) < total
        next_offset == offset + limit
        remaining == total - next_offset
    IN  [page |-> page,
         meta |-> [total |-> total, offset |-> offset, limit |-> limit,
                   truncated |-> truncated,
                   hint |-> IF truncated
                            THEN <<[next_offset |-> next_offset,
                                    next |-> Min(remaining, limit),
                                    remaining |-> remaining]>>
                            ELSE <<>>]]

pgOthers == <<cgVars, xmlVars, ixVars, db, lsVars, stVars>>

\* The client requests the page at pg_offset; the page is truncated and the
\* next request is one page size further.
PgNextPage ==
    /\ pg_pc = "paging"
    /\ LET r == Paginate(pg_items, pg_limit, pg_offset) IN
          /\ r.meta.truncated
          /\ pg_acc' = pg_acc \o r.page
          /\ pg_meta' = <<r.meta>>
          /\ pg_offset' = pg_offset + pg_limit
    /\ UNCHANGED <<pg_items, pg_limit, pg_pc, pgOthers>>

\* The page at pg_offset reports truncated = false: the client stops.
PgLastPage ==
    /\ pg_pc = "paging"
    /\ LET r == Paginate(pg_items, pg_limit, pg_offset) IN
          /\ ~r.meta.truncated
          /\ pg_acc' = pg_acc \o r.page
          /\ pg_meta' = <<r.meta>>
          /\ pg_pc' = "done"
    /\ UNCHANGED <<pg_items, pg_limit, pg_offset, pgOthers>>

InitPage ==
    /\ pg_items \in UNION {[1..n -> PgElems] : n \in 0..MaxLen}
    /\ pg_limit \in 0..MaxLimit
    /\ pg_offset = 0
    /\ pg_acc = <<>>
    /\ pg_meta = <<>>
    /\ pg_pc = "paging"
    /\ IdleCg
    /\ IdleXml
    /\ IdleIx
    /\ db = NoStore
    /\ IdleLs
    /\ IdleSt

NextPage ==
    \/ PgNextPage
    \/ PgLastPage

SpecPage == InitPage /\ [][NextPage]_vars

(***************************************************************************)
(* _paginate called once with any offset                                    *)
(***************************************************************************)
\* One request: page, meta = _paginate(items, limit, offset)
PgRequest ==
    /\ pg_pc = "request"
    /\ LET r == Paginate(pg_items, pg_limit, pg_offset) IN
          /\ pg_acc' = r.page
          /\ pg_meta' = <<r.meta>>
    /\ pg_pc' = "answered"
    /\ UNCHANGED <<pg_items, pg_limit, pg_offset, pgOthers>>

\* Any list, any page size and any offset up to one past the end of the
\* longest list.
InitRequest ==
    /\ pg_items \in UNION {[1..n -> PgElems] : n \in 0..MaxLen}
    /\ pg_limit \in 0..MaxLimit
    /\ pg_offset \in 0..(MaxLen + 1)
    /\ pg_acc = <<>>
    /\ pg_meta = <<>>
    /\ pg_pc = "request"
    /\ IdleCg
    /\ IdleXml
    /\ IdleIx
    /\ db = NoStore
    /\ IdleLs
    /\ IdleSt

NextRequest == PgRequest

SpecRequest == InitRequest /\ [][NextRequest]_vars

(***************************************************************************)
(* The list command                                                         *)
(***************************************************************************)
DefaultLimit == 50     \* getattr(args, "limit", 50)

\* The values of --kind: None, the empty string, kinds of the documents and
\* a kind no document has.
ListKinds == {<<>>, <<"">>, <<"function">>, <<"struct">>, <<"bogus">>}

\* `if kind:` - the truth value of an Optional[str]
Truthy(opt) == opt # <<>> /\ opt[1] # ""

\* `x in seq`
InSeq(x, seq) == \E k \in 1..Len(seq) : seq[k] = x

\* The order of the file names of the documents as Python compares strings.
FileRank(file) == IF file = "" THEN 0 ELSE 1

\* (a.file, a.line) < (b.file, b.line)
KeyLess(a, b) ==
    \/ FileRank(a.file) < FileRank(b.file)
    \/ (a.file = b.file /\ a.line < b.line)

\* One record put into a sorted list behind the records that are not greater.
RECURSIVE SortInsert(_, _)
SortInsert(sorted, s) ==
    IF sorted = <<>> THEN <<s>>
    ELSE IF KeyLess(s, Head(sorted)) THEN <<s>> \o sorted
    ELSE <<Head(sorted)>> \o SortInsert(Tail(sorted), s)

\* query.py:1133  symbols.sort(key=lambda s: (s.file, s.line)), a stable sort
RECURSIVE SortSymbols(_, _)
SortSymbols(symbols, sorted) ==
    IF symbols = <<>> THEN sorted
    ELSE SortSymbols(Tail(symbols), SortInsert(sorted, Head(symbols)))

\* What cmd_list returns and prints with --format json.
ListReturn(exit) ==
    [exit |-> exit, raised |-> "", error |-> <<>>, valid_kinds |-> <<>>,
     results |-> <<>>, meta |-> <<>>]

\* query.py:1099-1150  cmd_list(index, args) with --format json and no
\* --scope, --file, --count, --limit or --offset: valid_kinds is what
\* index.get_all_kinds() returns and all what index.get_all_symbols()
\* returns or raises
CmdList(valid_kinds, all, kind) ==
    IF Truthy(kind) /\ ~InSeq(kind[1], valid_kinds)
    THEN [ListReturn(1) EXCEPT !.error = <<kind[1]>>, !.valid_kinds = valid_kinds]
    ELSE IF all.raised # "" THEN [ListReturn(1) EXCEPT !.raised = all.raised]
    ELSE LET filtered == IF Truthy(kind)
                         THEN SelectSeq(all.results, LAMBDA s : s.kind = kind[1])
                         ELSE all.results
             pg == Paginate(SortSymbols(filtered, <<>>), DefaultLimit, 0)
         IN  [ListReturn(0) EXCEPT !.results = pg.page, !.meta = <<pg.meta>>]

\* query.py:1131-1133  the instance's cached list after cmd_list: the list
\* get_all_symbols() returned is the cached list itself, and it is sorted in
\* place unless the kind filter made a new list of it
CacheAfterList(all, kind, reached) ==
    IF ~reached \/ all.raised # "" THEN x_all_symbols
    ELSE IF Truthy(kind) THEN CacheAfter(all)
    ELSE <<SortSymbols(all.results, <<>>)>>

\* cmd_list on the in-memory backend (--no-sqlite)
ListXml ==
    /\ \E kind \in ListKinds :
          LET ret == CmdList(XmlGetAllKinds, XmlGetAllSymbols, kind) IN
          /\ ls_kind' = kind
          /\ ls_ret' = <<ret>>
          /\ x_all_symbols' = CacheAfterList(XmlGetAllSymbols, kind, ret.error = <<>>)
    /\ ls_backend' = "xml"
    /\ UNCHANGED <<cgVars, xmlVars, x_index, ix_op, ix_arg, ix_scope, ix_xml, ix_sql, db,
                   pgVars, stVars>>

\* cmd_list on the persistent backend
ListSqlite ==
    /\ \E kind \in ListKinds :
          /\ ls_kind' = kind
          /\ ls_ret' = <<CmdList(SqlGetAllKinds(db), SqlGetAllSymbols(db), kind)>>
    /\ ls_backend' = "sqlite"
    /\ UNCHANGED <<cgVars, xmlVars, ixVars, db, pgVars, stVars>>

NextList ==
    \/ ListXml
    \/ ListSqlite

\* Both backends constructed on the documents; reference lists and the name
\* of the second compound do not bear on the list command and are fixed.
InitList ==
    /\ InitIdx
    /\ xml_members["m1"].references = <<>>
    /\ xml_index.compounds[2].name = "K2"

SpecList == InitList /\ [][NextList]_vars

(***************************************************************************)
(* get_all_symbols() calls and list commands on the same two instances      *)
(***************************************************************************)
\* The documents of InitList that are well-formed and have no compounddef.
InitFrame ==
    /\ InitList
    /\ \A c \in CompoundIds : xml_docs[c].state = "ok" /\ xml_docs[c].def = <<>>

NextFrame ==
    \/ IxGetAllSymbols
    \/ ListXml
    \/ ListSqlite

SpecFrame == InitFrame /\ [][NextFrame]_vars

(***************************************************************************)
(* The store over time: the XML documents are written and deleted, and      *)
(* DoxygenSQLiteIndex is constructed on whatever is there. Every write and  *)
(* every build happens at a later time than everything before it.           *)
(***************************************************************************)
MaxTime == 4       \* last tick of the clock

XmlFiles == {"index"} \cup CompoundIds

\* The file is in the XML directory (xml_dir.glob("*.xml") lists it).
Exists(f) ==
    IF f = "index" THEN xml_index.state # "missing"
    ELSE xml_docs[f].state # "missing"

\* A staleness test that looks at index.xml only.
IsStale_IndexOnly == Exists("index") /\ xml_mtime["index"] > db.mtime

\* query.py:546-558  _is_stale, called when the store file exists
IsStale == \E f \in XmlFiles : Exists(f) /\ xml_mtime[f] > db.mtime

\* index.xml as Doxygen writes it: the struct K1, with or without its member
IndexOk(ms) ==
    [state |-> "ok",
     compounds |-> <<[refid |-> "c1", kind |-> "struct", name |-> "K1",
                      members |-> MemberElems(ms)]>>]
IndexMalformed == [state |-> "malformed", compounds |-> <<>>]
IndexMissing == [state |-> "missing", compounds |-> <<>>]

Step(op) == [NoStep EXCEPT !.op = op]

stOthers == <<cgVars, ixVars, lsVars, pgVars, restVars>>

\* index.xml is written, well-formed or not.
WriteIndex ==
    /\ now < MaxTime
    /\ xml_index' \in {IndexOk(<<"m1">>), IndexOk(<<>>), IndexMalformed}
    /\ xml_mtime' = [xml_mtime EXCEPT !["index"] = now + 1]
    /\ now' = now + 1
    /\ st_last' = Step("write_index")
    /\ UNCHANGED <<xml_docs, xml_members, db, stOthers>>

\* index.xml is deleted.
DeleteIndex ==
    /\ Exists("index")
    /\ xml_index' = IndexMissing
    /\ xml_mtime' = [xml_mtime EXCEPT !["index"] = 0]
    /\ st_last' = Step("delete_index")
    /\ UNCHANGED <<xml_docs, xml_members, db, now, stOthers>>

\* c1.xml is written: well-formed or cut short after its memberdefs, the
\* line attribute of memberdef m1 a number or not, with or without a second
\* memberdef that has no id.
WriteDoc ==
    /\ now < MaxTime
    /\ \E state \in {"ok", "malformed"}, line \in {"3", "7", "x"},
          ids \in {<<"m1">>, <<"m1", NoId>>} :
          /\ xml_docs' = [xml_docs EXCEPT
                            !["c1"] = [state |-> state, def |-> <<>>,
                                       members |-> ids]]
          /\ xml_members' = [xml_members EXCEPT !["m1"].line = line]
    /\ xml_mtime' = [xml_mtime EXCEPT !["c1"] = now + 1]
    /\ now' = now + 1
    /\ st_last' = Step("write_doc")
    /\ UNCHANGED <<xml_index, db, stOthers>>

\* c1.xml is deleted.
DeleteDoc ==
    /\ Exists("c1")
    /\ xml_docs' = [xml_docs EXCEPT !["c1"] = MissingDoc]
    /\ xml_mtime' = [xml_mtime EXCEPT !["c1"] = 0]
    /\ st_last' = Step("delete_doc")
    /\ UNCHANGED <<xml_index, xml_members, db, now, stOthers>>

\* query.py:524-544  DoxygenSQLiteIndex(xml_dir): __init__ and _ensure_db.
\* The store is reused when it exists and is not stale; otherwise _build_db
\* runs, and the exception that ends it leaves __init__.
Construct ==
    /\ IF db.exists /\ ~IsStale
       THEN /\ st_last' = [Step("construct") EXCEPT !.existed = TRUE]
            /\ UNCHANGED <<db, now>>
       ELSE /\ now < MaxTime
            /\ db' = BuildDb(now + 1)
            /\ now' = now + 1
            /\ st_last' = [op |-> "construct", existed |-> db.exists,
                           rebuilt |-> TRUE, raised |-> BuildRows.raised]
    /\ UNCHANGED <<xmlVars, xml_mtime, stOthers>>

\* Doxygen has written index.xml and c1.xml; there is no store yet.
InitStore ==
    /\ xml_members =
          [id \in MemberIds \cup {NoId} |->
             IF id = "m1"
             THEN [name |-> "A", kind |-> "function", file |-> "a.c", line |-> "3",
                   brief |-> "", references |-> <<"B">>, referenced_by |-> <<>>]
             ELSE IF id = "m2"
             THEN [name |-> "B", kind |-> "variable", file |-> "a.c", line |-> "7",
                   brief |-> "mb", references |-> <<>>, referenced_by |-> <<"A">>]
             ELSE [name |-> "E", kind |-> "function", file |-> "a.c", line |-> "7",
                   brief |-> "", references |-> <<>>, referenced_by |-> <<>>]]
    /\ xml_index = IndexOk(<<"m1">>)
    /\ xml_docs = [c \in CompoundIds |->
                     IF c = "c1"
                     THEN [state |-> "ok", def |-> <<>>, members |-> <<"m1">>]
                     ELSE MissingDoc]
    /\ xml_mtime = [f \in XmlFiles |-> IF Exists(f) THEN 1 ELSE 0]
    /\ now = 1
    /\ st_last = NoStep
    /\ db = NoStore
    /\ IdleCg
    /\ IdleIx
    /\ IdleLs
    /\ IdlePg
    /\ IdleRest

NextStore ==
    \/ WriteIndex
    \/ DeleteIndex
    \/ WriteDoc
    \/ DeleteDoc
    \/ Construct

SpecStore == InitStore /\ [][NextStore]_vars

(***************************************************************************)
(* Two processes construct a DoxygenSQLiteIndex on the same store and run   *)
(* a query.  The store is in WAL mode (query.py:535): a reader sees the     *)
(* last committed contents and is not blocked by a writer; a writer is      *)
(* blocked while another connection holds the write transaction, and gives  *)
(* up with OperationalError after the busy timeout.                         *)
(***************************************************************************)
Procs == {1, 2}

rbOthers == <<cgVars, xmlVars, ixVars, lsVars, pgVars, xml_mtime, now, st_last, hkVars, genVars,
              incVars, siVars>>

\* The connection of another process holds an open write transaction.
Locked(p) == \E o \in Procs \ {p} : rb_pc[o] = "inserting"

\* The store an earlier run left: built at time 0 from documents in which
\* the function A was at line 1 and referenced nothing.
OldStore ==
    [exists |-> TRUE, mtime |-> 0,
     symbols |-> <<CompoundRow([refid |-> "c1", name |-> "K1", kind |-> "struct"]),
                   MemberRow([SymbolInfo("m1", "A", "function") EXCEPT
                                 !.file = "a.c", !.line = 1])>>,
     refs |-> <<>>, meta |-> <<"built_at">>]

\* query.py:524-544, 532-538  __init__, _ensure_db up to the call of
\* _build_db, and _connect: sqlite3.connect creates the store file when
\* there is none, without tables.
EnsureDb(p) ==
    /\ rb_pc[p] = "idle"
    /\ IF db.exists /\ ~IsStale
       THEN /\ rb_pc' = [rb_pc EXCEPT ![p] = "ready"]
            /\ db' = db
       ELSE /\ rb_pc' = [rb_pc EXCEPT ![p] = "connected"]
            /\ db' = IF db.exists THEN db
                     ELSE [NoStore EXCEPT !.exists = TRUE, !.mtime = now]
    /\ UNCHANGED <<rb_txn, rb_tables, rb_ret, rbOthers>>

\* query.py:563-599  conn.executescript: the tables are dropped and created
\* again, each statement committed as it runs.
ExecuteScript(p) ==
    /\ rb_pc[p] = "connected"
    /\ ~Locked(p)
    /\ db' = [db EXCEPT !.symbols = <<>>, !.refs = <<>>, !.meta = <<>>]
    /\ rb_tables' = TRUE
    /\ rb_pc' = [rb_pc EXCEPT ![p] = "tables"]
    /\ UNCHANGED <<rb_txn, rb_ret, rbOthers>>

\* query.py:601-674  the inserts and updates of _build_db: the first one
\* opens the write transaction, nothing is committed.  INSERT OR IGNORE
\* keeps the symbols rows another build has committed; the refs rows are
\* added to those that are there.
InsertRows(p) ==
    /\ rb_pc[p] = "tables"
    /\ ~Locked(p)
    /\ BuildRows.raised = ""
    /\ rb_txn' = [rb_txn EXCEPT ![p] =
                    <<[symbols |-> IF db.symbols = <<>> THEN BuildRows.symbols
                                   ELSE db.symbols,
                       refs |-> db.refs \o BuildRows.refs]>>]
    /\ rb_pc' = [rb_pc EXCEPT ![p] = "inserting"]
    /\ UNCHANGED <<db, rb_tables, rb_ret, rbOthers>>

\* query.py:563, 617  a statement that writes waits for the write lock of
\* another connection until the busy timeout, then raises OperationalError
\* (database is locked), which leaves __init__.
WriteLocked(p) ==
    /\ rb_pc[p] \in {"connected", "tables"}
    /\ Locked(p)
    /\ rb_pc' = [rb_pc EXCEPT ![p] = "failed"]
    /\ rb_ret' = [rb_ret EXCEPT ![p] = Raise("OperationalError")]
    /\ UNCHANGED <<db, rb_txn, rb_tables, rbOthers>>

\* query.py:676-681  built_at is written and conn.commit() makes the rows
\* visible to other connections.
Commit(p) ==
    /\ rb_pc[p] = "inserting"
    /\ db' = [db EXCEPT !.symbols = rb_txn[p][1].symbols,
                        !.refs = rb_txn[p][1].refs,
                        !.meta = <<"built_at">>, !.mtime = now]
    /\ rb_txn' = [rb_txn EXCEPT ![p] = <<>>]
    /\ rb_pc' = [rb_pc EXCEPT ![p] = "ready"]
    /\ UNCHANGED <<rb_tables, rb_ret, rbOthers>>

\* query.py:712-723  find_symbol("A") on the constructed index: a SELECT on
\* the committed contents, which raises OperationalError (no such table)
\* when the tables are not there.
Query(p) ==
    /\ rb_pc[p] = "ready"
    /\ rb_ret' = [rb_ret EXCEPT ![p] =
                    IF rb_tables THEN SqlFindSymbol(db, "A")
                    ELSE Raise("OperationalError")]
    /\ rb_pc' = [rb_pc EXCEPT ![p] = "answered"]
    /\ UNCHANGED <<db, rb_txn, rb_tables, rbOthers>>

\* Doxygen wrote index.xml and c1.xml (struct K1 with the function A) at
\* time 1; it is time 2.  There is no store, or the store of an earlier run,
\* or a store built from these documents.
InitRebuild ==
    /\ \E refs \in RefLists :
          xml_members =
             [id \in MemberIds |->
                IF id = "m1"
                THEN [name |-> "A", kind |-> "function", file |-> "a.c", line |-> "3",
                      brief |-> "", references |-> refs, referenced_by |-> <<>>]
                ELSE [name |-> "B", kind |-> "variable", file |-> "a.c", line |-> "7",
                      brief |-> "mb", references |-> <<>>, referenced_by |-> <<"A">>]]
    /\ xml_index = IndexOk(<<"m1">>)
    /\ xml_docs = [c \in CompoundIds |->
                     IF c = "c1"
                     THEN [state |-> "ok", def |-> <<>>, members |-> <<"m1">>]
                     ELSE MissingDoc]
    /\ xml_mtime = [f \in XmlFiles |-> IF Exists(f) THEN 1 ELSE 0]
    /\ now = 2
    /\ st_last = NoStep
    /\ db \in {NoStore, OldStore, BuildDb(1)}
    /\ rb_pc = [p \in Procs |-> "idle"]
    /\ rb_txn = [p \in Procs |-> <<>>]
    /\ rb_tables = db.exists
    /\ rb_ret = [p \in Procs |-> NoReturn]
    /\ IdleCg
    /\ IdleIx
    /\ IdleLs
    /\ IdlePg
    /\ IdleHk
    /\ IdleGen
    /\ IdleInc
    /\ IdleSi

NextRebuild ==
    \/ \E p \in Procs : EnsureDb(p)
    \/ \E p \in Procs : ExecuteScript(p)
    \/ \E p \in Procs : InsertRows(p)
    \/ \E p \in Procs : WriteLocked(p)
    \/ \E p \in Procs : Commit(p)
    \/ \E p \in Procs : Query(p)

SpecRebuild == InitRebuild /\ [][NextRebuild]_vars

(***************************************************************************)
(* hook.py: install and remove on one git hook file.  A text is a sequence  *)
(* of tokens: the newline, a blank, the strings the code looks for, and     *)
(* "x" for any other run of non-blank characters.                           *)
(***************************************************************************)
MaxHookLen == 3    \* tokens of the hook file before the first command
MaxOps == 3        \* commands run on the hook file

NL == "\n"
SP == " "
Shebang == "#!/bin/sh"
\* hook.py:20-21
MARKER_BEGIN == "# BEGIN doxygen-generator-skill-hook"
MARKER_END == "# END doxygen-generator-skill-hook"
White == {NL, SP}

\* hook.py:52-57  generate_hook_block: the markers around the comment line
\* and the command line
GenerateHookBlock ==
    <<MARKER_BEGIN, NL, "# Auto-regenerate", NL, "python3 generate.py --force &", NL,
      MARKER_END>>

\* MARKER_BEGIN in content
HasMarker(content) == \E k \in 1..Len(content) : content[k] = MARKER_BEGIN

\* str.strip()
RECURSIVE LStrip(_)
LStrip(text) ==
    IF text # <<>> /\ Head(text) \in White THEN LStrip(Tail(text)) ELSE text
RECURSIVE RStrip(_)
RStrip(text) ==
    IF text # <<>> /\ text[Len(text)] \in White
    THEN RStrip(SubSeq(text, 1, Len(text) - 1))
    ELSE text
Strip(text) == RStrip(LStrip(text))

\* content.split("\n")
RECURSIVE SplitLines(_, _)
SplitLines(text, line) ==
    IF text = <<>> THEN <<line>>
    ELSE IF Head(text) = NL THEN <<line>> \o SplitLines(Tail(text), <<>>)
    ELSE SplitLines(Tail(text), Append(line, Head(text)))

\* "\n".join(new_lines)
RECURSIVE JoinLines(_)
JoinLines(lines) ==
    IF lines = <<>> THEN <<>>
    ELSE IF Len(lines) = 1 THEN lines[1]
    ELSE lines[1] \o <<NL>> \o JoinLines(Tail(lines))

\* hook.py:68-79  the content install_hook writes over an existing file's
\* content that has no marker
Appended(content) ==
    (IF content # <<>> /\ content[Len(content)] = NL THEN content
     ELSE Append(content, NL)) \o <<NL>> \o GenerateHookBlock \o <<NL>>

\* hook.py:60-89  install_hook: the hook file afterwards
InstallHook(file) ==
    IF file # <<>>
    THEN IF HasMarker(file[1]) THEN file
         ELSE <<Appended(file[1])>>
    ELSE <<<<Shebang, NL, NL>> \o GenerateHookBlock \o <<NL>>>>

\* hook.py:103-115  the loop of remove_hook over the lines
RECURSIVE KeptLines(_, _)
KeptLines(lines, inside_block) ==
    IF lines = <<>> THEN <<>>
    ELSE LET line == Head(lines) IN
         IF Strip(line) = <<MARKER_BEGIN>> THEN KeptLines(Tail(lines), TRUE)
         ELSE IF Strip(line) = <<MARKER_END>> THEN KeptLines(Tail(lines), FALSE)
         ELSE IF ~inside_block THEN <<line>> \o KeptLines(Tail(lines), inside_block)
         ELSE KeptLines(Tail(lines), inside_block)

\* hook.py:92-127  remove_hook: the hook file afterwards
RemoveHook(file) ==
    IF file = <<>> THEN file
    ELSE IF ~HasMarker(file[1]) THEN file
    ELSE LET cleaned == Strip(JoinLines(KeptLines(SplitLines(file[1], <<>>), FALSE)))
         IN  IF cleaned # <<>> /\ cleaned # <<Shebang>>
             THEN <<Append(cleaned, NL)>>
             ELSE <<>>

HookFile == hk_hist[Len(hk_hist)]

hkOthers == <<cgVars, xmlVars, ixVars, db, lsVars, pgVars, xml_mtime, now, st_last, rbVars,
              genVars, incVars, siVars>>

\* hook.py <workspace> install
HkInstall ==
    /\ Len(hk_ops) < MaxOps
    /\ hk_hist' = Append(hk_hist, InstallHook(HookFile))
    /\ hk_ops' = Append(hk_ops, "install")
    /\ UNCHANGED hkOthers

\* hook.py <workspace> remove
HkRemove ==
    /\ Len(hk_ops) < MaxOps
    /\ hk_hist' = Append(hk_hist, RemoveHook(HookFile))
    /\ hk_ops' = Append(hk_ops, "remove")
    /\ UNCHANGED hkOthers

HookTexts == UNION {[1..n -> {NL, SP, "x", Shebang}] : n \in 0..MaxHookLen}

\* There is no hook file, or one a user or another tool wrote.
InitHook ==
    /\ \E file \in {<<>>} \cup {<<t>> : t \in HookTexts} : hk_hist = <<file>>
    /\ hk_ops = <<>>
    /\ IdleCg
    /\ IdleXml
    /\ IdleIx
    /\ db = NoStore
    /\ IdleLs
    /\ IdlePg
    /\ xml_mtime = <<>>
    /\ now = 0
    /\ st_last = NoStep
    /\ IdleRb
    /\ IdleGen
    /\ IdleInc
    /\ IdleSi

NextHook ==
    \/ HkInstall
    \/ HkRemove

SpecHook == InitHook /\ [][NextHook]_vars

(***************************************************************************)
(* generate.py: runs on one workspace, between which source files change.   *)
(* The clock ticks with every run and every change.                         *)
(***************************************************************************)
Outputs == {"html", "xml"}

NoOutput == [exists |-> FALSE, good |-> FALSE, at |-> 0]

\* generate.py:103-117  is_stale
GenIsStale ==
    IF ~g_out["html"].exists /\ ~g_out["xml"].exists THEN TRUE
    ELSE IF g_cache = 0 THEN TRUE
    ELSE g_src > g_cache

\* generate.py:221-222 (generate_html, generate_xml), 273-274  the outputs
\* an invocation asks for
Requested(no_html, no_xml) ==
    (IF no_html THEN {} ELSE {"html"}) \cup (IF no_xml THEN {} ELSE {"xml"})

GenLast(force, no_html, no_xml, outcome) ==
    [force |-> force, no_html |-> no_html, no_xml |-> no_xml, outcome |-> outcome]

genOthers == <<cgVars, xmlVars, ixVars, db, lsVars, pgVars, xml_mtime, now, st_last, rbVars,
               hkVars, incVars, siVars>>

\* generate.py:192-194  main: not forced and not stale, nothing is done
GenUpToDate ==
    /\ g_now < MaxTime
    /\ \E no_html \in BOOLEAN, no_xml \in BOOLEAN :
          /\ ~GenIsStale
          /\ g_last' = <<GenLast(FALSE, no_html, no_xml, "up-to-date")>>
    /\ g_now' = g_now + 1
    /\ UNCHANGED <<g_out, g_cache, g_src, genOthers>>

\* generate.py:196-292  main: the old html and xml directories are removed,
\* Doxygen runs to the end and writes the outputs asked for, and the cache
\* gets the time of the run.
GenRun ==
    /\ g_now < MaxTime
    /\ \E force \in BOOLEAN, no_html \in BOOLEAN, no_xml \in BOOLEAN :
          /\ force \/ GenIsStale
          /\ g_out' = [o \in Outputs |->
                         IF o \in Requested(no_html, no_xml)
                         THEN [exists |-> TRUE, good |-> TRUE, at |-> g_now + 1]
                         ELSE NoOutput]
          /\ g_last' = <<GenLast(force, no_html, no_xml, "generated")>>
    /\ g_cache' = g_now + 1
    /\ g_now' = g_now + 1
    /\ UNCHANGED <<g_src, genOthers>>

\* generate.py:239-266  main: the old directories are removed, Doxygen
\* exits with an error or is stopped after 600 seconds, having written any
\* part of the outputs asked for; the cache keeps its generated_at.
GenFail ==
    /\ g_now < MaxTime
    /\ \E force \in BOOLEAN, no_html \in BOOLEAN, no_xml \in BOOLEAN,
          written \in SUBSET Outputs, outcome \in {"failed", "timeout"} :
          /\ force \/ GenIsStale
          /\ written \subseteq Requested(no_html, no_xml)
          /\ g_out' = [o \in Outputs |->
                         IF o \in written
                         THEN [exists |-> TRUE, good |-> FALSE, at |-> g_now + 1]
                         ELSE NoOutput]
          /\ g_last' = <<GenLast(force, no_html, no_xml, outcome)>>
    /\ g_now' = g_now + 1
    /\ UNCHANGED <<g_cache, g_src, genOthers>>

\* generate.py:80-100  a source file is written: get_newest_source_mtime
\* returns its mtime from now on
GenEdit ==
    /\ g_now < MaxTime
    /\ g_src' = g_now + 1
    /\ g_now' = g_now + 1
    /\ g_last' = <<>>
    /\ UNCHANGED <<g_out, g_cache, genOthers>>

\* A workspace with source files, never documented.
InitGen ==
    /\ g_out = [o \in Outputs |-> NoOutput]
    /\ g_cache = 0
    /\ g_src = 1
    /\ g_now = 1
    /\ g_last = <<>>
    /\ IdleCg
    /\ IdleXml
    /\ IdleIx
    /\ db = NoStore
    /\ IdleLs
    /\ IdlePg
    /\ xml_mtime = <<>>
    /\ now = 0
    /\ st_last = NoStep
    /\ IdleRb
    /\ IdleHk
    /\ IdleInc
    /\ IdleSi

NextGen ==
    \/ GenUpToDate
    \/ GenRun
    \/ GenFail
    \/ GenEdit

SpecGen == InitGen /\ [][NextGen]_vars

(***************************************************************************)
(* analyze.py: extract_include_edges on one C file.  The file is the        *)
(* sequence of its preprocessor lines; every #include names a file of the   *)
(* workspace in quotes.                                                     *)
(***************************************************************************)
MaxLines == 5      \* preprocessor lines of the file

IfdefX == "#ifdef CONFIG_X"
IfdefY == "#ifdef CONFIG_Y"
IfdefFoo == "#ifdef FOO"
Elif == "#elif defined(FOO)"
Else == "#else"
Endif == "#endif"
Include == "#include \"a.h\""
Lines == {IfdefX, IfdefY, IfdefFoo, Elif, Else, Endif, Include}

\* analyze.py:335-339  ifdef_re: the CONFIG_ symbol a line tests, "" when
\* the expression does not match the line
IfdefRe(line) ==
    IF line = IfdefX THEN "CONFIG_X"
    ELSE IF line = IfdefY THEN "CONFIG_Y"
    ELSE ""

\* analyze.py:340-341  endif_re, else_re
EndifRe(line) == line = Endif
ElseRe(line) == line \in {Else, Elif}

\* analyze.py:370  the value an "else" directive puts on top of the stack:
\* "!" is put before a condition that has none and taken off one that has
Toggle(cond) ==
    CASE cond = "CONFIG_X" -> "!CONFIG_X"
      [] cond = "CONFIG_Y" -> "!CONFIG_Y"
      [] cond = "!CONFIG_X" -> "CONFIG_X"
      [] cond = "!CONFIG_Y" -> "CONFIG_Y"

\* analyze.py:364, 376  cond_stack[-1] if cond_stack else None; an edge made
\* with None has no "condition" key
CurCond(cond_stack) ==
    IF cond_stack = <<>> THEN Absent ELSE cond_stack[Len(cond_stack)]

\* analyze.py:350-395  the walk over the directives and the includes in the
\* order of their positions: an include gets the condition of the range it
\* lies in, which is the top of the stack after the directive before it
RECURSIVE WalkLines(_, _, _)
WalkLines(lines, cond_stack, edges) ==
    IF lines = <<>> THEN edges
    ELSE LET line == Head(lines)
             n == Len(cond_stack)
         IN  IF line = Include
             THEN WalkLines(Tail(lines), cond_stack, Append(edges, CurCond(cond_stack)))
             ELSE IF IfdefRe(line) # ""
             THEN WalkLines(Tail(lines), Append(cond_stack, IfdefRe(line)), edges)
             ELSE IF ElseRe(line) /\ n > 0
             THEN WalkLines(Tail(lines),
                            [cond_stack EXCEPT ![n] = Toggle(cond_stack[n])], edges)
             ELSE IF EndifRe(line) /\ n > 0
             THEN WalkLines(Tail(lines), SubSeq(cond_stack, 1, n - 1), edges)
             ELSE WalkLines(Tail(lines), cond_stack, edges)

\* analyze.py:324-396  extract_include_edges: the conditions of the edges of
\* the file
ExtractIncludeEdges(lines) == WalkLines(lines, <<>>, <<>>)

\* The lines nest as the preprocessor requires: blocks is the branch
\* ("if", "elif", "else") each open block is in.
RECURSIVE Nests(_, _)
Nests(lines, blocks) ==
    IF lines = <<>> THEN blocks = <<>>
    ELSE LET line == Head(lines)
             n == Len(blocks)
         IN  IF line \in {IfdefX, IfdefY, IfdefFoo}
             THEN Nests(Tail(lines), Append(blocks, "if"))
             ELSE IF line = Elif
             THEN n > 0 /\ blocks[n] # "else"
                  /\ Nests(Tail(lines), [blocks EXCEPT ![n] = "elif"])
             ELSE IF line = Else
             THEN n > 0 /\ blocks[n] # "else"
                  /\ Nests(Tail(lines), [blocks EXCEPT ![n] = "else"])
             ELSE IF line = Endif
             THEN n > 0 /\ Nests(Tail(lines), SubSeq(blocks, 1, n - 1))
             ELSE Nests(Tail(lines), blocks)

incOthers == <<cgVars, xmlVars, ixVars, db, lsVars, pgVars, xml_mtime, now, st_last, rbVars,
               hkVars, genVars, siVars>>

\* analyze.py:324-396  extract_include_edges on the file
IncExtract ==
    /\ inc_edges = <<>>
    /\ inc_edges' = <<ExtractIncludeEdges(inc_text)>>
    /\ UNCHANGED <<inc_text, incOthers>>

\* A C file that compiles: its conditionals nest and are closed.
InitInc ==
    /\ inc_text \in UNION {[1..n -> Lines] : n \in 0..MaxLines}
    /\ Nests(inc_text, <<>>)
    /\ inc_edges = <<>>
    /\ IdleCg
    /\ IdleXml
    /\ IdleIx
    /\ db = NoStore
    /\ IdleLs
    /\ IdlePg
    /\ xml_mtime = <<>>
    /\ now = 0
    /\ st_last = NoStep
    /\ IdleRb
    /\ IdleHk
    /\ IdleGen
    /\ IdleSi

NextInc == IncExtract

SpecInc == InitInc /\ [][NextInc]_vars

(***************************************************************************)
(* search_index.py: searches on one workspace whose source files do not     *)
(* change.  A name is the sequence of its characters.                       *)
(***************************************************************************)
Workspace == "/ws"

\* os.path.abspath of a path ctags reports, os.path.relpath(path, workspace)
Abspath(path) == <<Workspace, path>>
Relpath(path) == IF Len(path) = 2 /\ path[1] = Workspace THEN path[2] ELSE "..unknown"

Foo == <<"f", "o", "o">>
FooBar == <<"f", "o", "o", "b", "a", "r">>
Bar == <<"b", "a", "r">>

\* The tags ctags reports for the workspace, in its order: [name, kind,
\* path, line, end]; end is -1 for a tag without that field.
Tags ==
    <<[name |-> Foo, kind |-> "function", path |-> "a.c", line |-> 3, end |-> 9],
      [name |-> FooBar, kind |-> "variable", path |-> "a.c", line |-> 12, end |-> NullInt],
      [name |-> Foo, kind |-> "struct", path |-> "a.h", line |-> 1, end |-> 4]>>

\* search_index.py:307-320  get_ctags_kind_for_type
GetCtagsKindForType(type_name) ==
    CASE type_name = "function" -> "f"
      [] type_name = "struct" -> "s"
      [] type_name = "variable" -> "v"
      [] OTHER -> ""

\* search_index.py:436-447  the kinds ctags is run with: all of them, or
\* those of --type (<<>> for no --type, else <<the type>>)
Kinds(type) ==
    IF type # <<>> /\ GetCtagsKindForType(type[1]) # ""
    THEN {GetCtagsKindForType(type[1])}
    ELSE {"d", "f", "e", "g", "m", "s", "t", "u", "v"}

\* search_index.py:107-151  run_ctags with --kinds-C=kinds
RunCtags(kinds) == SelectSeq(Tags, LAMBDA t : GetCtagsKindForType(t.kind) \in kinds)

\* search_index.py:154-181  tags_to_symbols: the dicts have no "file" key
TagsToSymbols(tags) ==
    [k \in 1..Len(tags) |->
        [name |-> tags[k].name, kind |-> tags[k].kind, file |-> Absent,
         path |-> Abspath(tags[k].path),
         start_line |-> tags[k].line,
         end_line |-> IF tags[k].end = NullInt THEN tags[k].line ELSE tags[k].end]]

\* sorted(ctags_symbols, key=name.lower()): a stable sort; the names of
\* the model are foo and foobar
SortByName(symbols) ==
    SelectSeq(symbols, LAMBDA x : x.name = Foo) \o
    SelectSeq(symbols, LAMBDA x : x.name # Foo)

\* search_index.py:342-369  generate_indexing_md: the rows of the table;
\* the Lines cell is written as start, "-", end
GenerateIndexingMd(symbols) ==
    LET sorted == SortByName(symbols) IN
    [k \in 1..Len(sorted) |->
        [name |-> sorted[k].name, file |-> Relpath(sorted[k].path),
         type |-> sorted[k].kind,
         lines |-> [start |-> sorted[k].start_line, sep |-> "-",
                    end |-> sorted[k].end_line]]]

\* search_index.py:223-235  the Lines cell of a row is "a - b" or one
\* integer; int() of anything else raises ValueError and the row is skipped
LinesParse(cell) == cell.sep \in {" - ", ""}

\* search_index.py:184-248  parse_indexing_md: the dicts have no "path" key
ParseIndexingMd(rows) ==
    LET ok == SelectSeq(rows, LAMBDA r : LinesParse(r.lines)) IN
    [k \in 1..Len(ok) |->
        [name |-> ok[k].name, kind |-> ok[k].type, file |-> ok[k].file,
         path |-> <<>>,
         start_line |-> ok[k].lines.start,
         end_line |-> IF ok[k].lines.sep = "" THEN ok[k].lines.start
                      ELSE ok[k].lines.end]]

\* name in sym["name"]: a substring
Contains(hay, needle) ==
    \E k \in 0..(Len(hay) - Len(needle)) : SubSeq(hay, k + 1, k + Len(needle)) = needle

\* search_index.py:251-272  search_symbols; no kind of the model is a
\* substring of another, so the type test is equality
SearchSymbols(symbols, name, type_filter, exact_match) ==
    SelectSeq(symbols, LAMBDA sym :
        /\ IF exact_match THEN sym.name = name ELSE Contains(sym.name, name)
        /\ type_filter # <<>> => sym.kind = type_filter[1])

\* search_index.py:274-305  format_results groups by r["file"]: KeyError
\* for a dict without that key
FormatResults(results) ==
    IF \E k \in 1..Len(results) : results[k].file = Absent
    THEN Raise("KeyError")
    ELSE Return(results)

\* search_index.py:323-339  needs_reindex for unchanged sources: there is no
\* indexing.md (one that exists is newer than every source file)
NeedsReindex == si_md = <<>>

\* The names and --type values searched for.
SearchNames == {Foo, FooBar, Bar}
SearchTypes == {<<>>, <<"function">>, <<"struct">>, <<"variable">>}

siOthers == <<cgVars, xmlVars, ixVars, db, lsVars, pgVars, xml_mtime, now, st_last, rbVars,
              hkVars, genVars, incVars>>

SiLast(name, type, exact, rebuilt, out) ==
    [name |-> name, type |-> type, exact |-> exact, rebuilt |-> rebuilt,
     raised |-> out.raised, results |-> out.results]

\* search_index.py:433-506  main: search_index.py <workspace> <name>
\* [--type T] [--exact-match] [--force-index]
SiSearch ==
    \E name \in SearchNames, type \in SearchTypes,
       exact \in BOOLEAN, force \in BOOLEAN :
       IF force \/ NeedsReindex
       THEN LET ctags_symbols == TagsToSymbols(RunCtags(Kinds(type)))
                results == SearchSymbols(ctags_symbols, name, type, exact)
            IN  /\ si_md' = <<GenerateIndexingMd(ctags_symbols)>>
                /\ si_last' = <<SiLast(name, type, exact, TRUE, FormatResults(results))>>
                /\ UNCHANGED siOthers
       ELSE LET symbols == ParseIndexingMd(si_md[1])
                results == SearchSymbols(symbols, name, type, exact)
            IN  /\ si_last' = <<SiLast(name, type, exact, FALSE, FormatResults(results))>>
                /\ UNCHANGED <<si_md, siOthers>>

\* search_index.py:406-427  main with --index-only
SiIndexOnly ==
    /\ si_md' = <<GenerateIndexingMd(TagsToSymbols(RunCtags(Kinds(<<>>))))>>
    /\ si_last' = <<>>
    /\ UNCHANGED siOthers

\* The workspace has no indexing.md yet.
InitSearch ==
    /\ si_md = <<>>
    /\ si_last = <<>>
    /\ IdleCg
    /\ IdleXml
    /\ IdleIx
    /\ db = NoStore
    /\ IdleLs
    /\ IdlePg
    /\ xml_mtime = <<>>
    /\ now = 0
    /\ st_last = NoStep
    /\ IdleRb
    /\ IdleHk
    /\ IdleGen
    /\ IdleInc

NextSearch ==
    \/ SiSearch
    \/ SiIndexOnly

SpecSearch == InitSearch /\ [][NextSearch]_vars

(***************************************************************************)
(* Properties of build_callgraph                                            *)
(***************************************************************************)
RECURSIVE TreeSize(_)
RECURSIVE ForestSize(_)
\* The number of nodes of a returned tree: the node and everything nested
\* under its calls and callers.
TreeSize(node) == 1 + ForestSize(node.calls) + ForestSize(node.callers)
ForestSize(nodes) ==
    IF nodes = <<>> THEN 0 ELSE TreeSize(Head(nodes)) + ForestSize(Tail(nodes))

RECURSIVE HasCycleLeaf(_)
HasCycleLeaf(node) ==
    \/ node.cycle
    \/ \E k \in 1..Len(node.calls) : HasCycleLeaf(node.calls[k])
    \/ \E k \in 1..Len(node.callers) : HasCycleLeaf(node.callers[k])

Range(seq) == {seq[k] : k \in 1..Len(seq)}

\* The index holds the cycle A calls B, B calls A.
CycleAB ==
    /\ "B" \in Range(FirstSymbol("A").references)
    /\ "A" \in Range(FirstSymbol("B").references)

\* C1: every call of build_callgraph returns, whatever the graph (cyclic or
\* not), the start name, the depth, the direction and the node budget.
C1_Terminates == (cg_pc = "start") ~> (cg_pc = "done")

\* A call on the cyclic graph with depth >= 2 that walked the cycle has
\* returned, the repeated name being a cycle leaf.
C1_Witness ==
    /\ cg_pc = "done"
    /\ CycleAB
    /\ cg_name = "A"
    /\ cg_depth >= 2
    /\ cg_dir = "calls"
    /\ visited = {"A", "B"}
    /\ HasCycleLeaf(cg_result[1].tree)

\* C2: with max_nodes = N > 0 the returned tree has at most N nodes.
C2_TreeWithinBudget ==
    (cg_pc = "done" /\ max_nodes > 0) => TreeSize(cg_result[1].tree) <= max_nodes

\* C3: with max_nodes = N > 0 the truncated flag is set exactly when the
\* unbounded call exceeds N nodes (counted as visited names or as nodes of
\* the tree), and never when the bounded call returns the unbounded tree.
C3_TruncatedIffExceeded ==
    (cg_pc = "done" /\ max_nodes > 0) =>
        LET full == cg_full[1]
            r    == cg_result[1]
        IN  /\ r.meta.truncated =>
                   \/ full.meta.total_nodes > max_nodes
                   \/ TreeSize(full.tree) > max_nodes
            /\ full.meta.total_nodes > max_nodes => r.meta.truncated
            /\ r.tree = full.tree => ~r.meta.truncated

(***************************************************************************)
(* Properties of the two backends                                           *)
(***************************************************************************)
NoDuplicateIds(list) ==
    \A j, k \in 1..Len(list) : list[j].id = list[k].id => j = k

\* The two lists hold the same records, each id once.
SameRecords(a, b) ==
    /\ Range(a) = Range(b)
    /\ NoDuplicateIds(a)
    /\ NoDuplicateIds(b)

AllDocsWellFormed == \A c \in CompoundIds : xml_docs[c].state # "malformed"

\* C4: find_symbol(name) returns the same records from both backends, each
\* id once, with equal kind, file, line, brief, references and
\* referenced_by, for member and compound names, for every compound kind,
\* when a detail document is missing and when a member id is listed under
\* more than one compound.
C4_FindSymbolAgrees ==
    (ix_op = "find_symbol" /\ AllDocsWellFormed) =>
        /\ ix_xml.raised = ""
        /\ SameRecords(ix_xml.results, ix_sql.results)

\* C5: get_all_symbols() returns the same non-compound records from both
\* backends, each id once and with the same references and referenced_by,
\* also when a memberdef id occurs in more than one detail document.
C5_AllSymbolsAgree ==
    (ix_op = "get_all_symbols" /\ AllDocsWellFormed) =>
        /\ ix_xml.raised = ""
        /\ SameRecords(ix_xml.results, ix_sql.results)

(***************************************************************************)
(* Properties of the store                                                  *)
(***************************************************************************)
\* The store file is absent, or an XML document in the directory has a
\* modification time newer than the store file's.
AbsentOrOlder ==
    \/ ~db.exists
    \/ \E f \in XmlFiles : Exists(f) /\ xml_mtime[f] > db.mtime

\* C6: a construction rebuilds the store (the three tables are dropped and
\* repopulated from the documents, completely when no exception ends the
\* build) if and only if the store is absent or an XML document is newer
\* than it; otherwise it leaves every table of the store as it was.
C6_RebuildIffStale ==
    [][st_last'.op = "construct" =>
         /\ st_last'.rebuilt <=> AbsentOrOlder
         /\ AbsentOrOlder =>
               /\ db'.exists
               /\ db'.mtime > db.mtime
               /\ st_last'.raised = "" =>
                     /\ db'.symbols = BuildRows.symbols
                     /\ db'.refs = BuildRows.refs
                     /\ db'.meta = <<"built_at">>
         /\ ~AbsentOrOlder => db' = db]_vars

\* A construction found a store older than a rewritten document and rebuilt
\* it with the document's new content.
C6_Witness ==
    /\ st_last.op = "construct"
    /\ st_last.existed
    /\ st_last.rebuilt
    /\ st_last.raised = ""
    /\ \E k \in 1..Len(db.symbols) : db.symbols[k].id = "m1" /\ db.symbols[k].line = 7

\* The store deleted and rebuilt from the documents as they are now
FreshStore == BuildDb(now)

\* C7: whatever was written or deleted before, the results a newly
\* constructed DoxygenSQLiteIndex serves are those of a store rebuilt from
\* the documents as they are now.
C7_StoreIsCache ==
    (st_last.op = "construct" /\ st_last.raised = "" /\ BuildRows.raised = "") =>
        /\ \A name \in QueryNames :
              Range(SqlFindSymbol(db, name).results)
                  = Range(SqlFindSymbol(FreshStore, name).results)
        /\ Range(SqlGetAllSymbols(db).results)
              = Range(SqlGetAllSymbols(FreshStore).results)
        /\ SqlGetAllKinds(db) = SqlGetAllKinds(FreshStore)

\* The ids of the symbols of the documents: the compounds index.xml names
\* and the memberdefs of the documents of the compounds it lists members for
XmlIds ==
    IF xml_index.state # "ok" THEN {}
    ELSE LET cs == xml_index.compounds IN
         {cs[k].refid : k \in {j \in 1..Len(cs) : cs[j].name # ""}}
         \cup UNION {Range(xml_docs[cs[k].refid].members) :
                       k \in {j \in 1..Len(cs) : cs[j].members # <<>>}}

\* C8: a store that a construction accepts as fresh and reuses holds the
\* symbols of the XML documents, also after a build that an exception ended.
C8_NoPartialStoreReused ==
    (st_last.op = "construct" /\ ~st_last.rebuilt) =>
        \A id \in XmlIds : HasId(db.symbols, id)

(***************************************************************************)
(* Properties of _paginate                                                  *)
(***************************************************************************)
\* C9: for every list and page size L >= 1, the pages requested at offsets
\* 0, L, 2L, ... up to the first page with truncated = false, concatenated,
\* are the full list: same elements, same order, none twice, none missing.
C9_RoundTrip == (pg_pc = "done" /\ pg_limit >= 1) => pg_acc = pg_items

\* A list of three elements, one of them twice, was fetched in three pages.
C9_Witness ==
    /\ pg_pc = "done"
    /\ pg_limit = 1
    /\ pg_items = <<"a", "b", "a">>
    /\ pg_offset = 2
    /\ pg_acc = pg_items

(***************************************************************************)
(* Properties of the list command                                           *)
(***************************************************************************)
\* get_all_kinds() of the backend the last list command ran on
KindsOfBackend == IF ls_backend = "xml" THEN XmlGetAllKinds ELSE SqlGetAllKinds(db)

\* C10: a kind filter that is a string not in get_all_kinds() makes cmd_list
\* return 1 with the error whose valid_kinds is get_all_kinds() and with no
\* results; a kind filter in get_all_kinds() never gets that error.
C10_KindValidated ==
    (ls_ret # <<>> /\ ls_kind # <<>>) =>
        LET r == ls_ret[1]
            kind == ls_kind[1]
        IN  /\ ~InSeq(kind, KindsOfBackend) =>
                   /\ r.exit = 1
                   /\ r.error = <<kind>>
                   /\ r.valid_kinds = KindsOfBackend
                   /\ r.results = <<>>
            /\ InSeq(kind, KindsOfBackend) => r.error = <<>>

(***************************************************************************)
(* Properties of the returned tree                                          *)
(***************************************************************************)
RECURSIVE Flatten(_), FlattenForest(_)
\* The nodes of a tree in traversal order: a node, then the subtrees of its
\* calls, then the subtrees of its callers.
Flatten(node) == <<node>> \o FlattenForest(node.calls) \o FlattenForest(node.callers)
FlattenForest(nodes) ==
    IF nodes = <<>> THEN <<>>
    ELSE Flatten(Head(nodes)) \o FlattenForest(Tail(nodes))

\* A node whose symbol was resolved and whose loops ran.
Expanded(node) == node.kind # Absent
IsLeaf(node) == node.calls = <<>> /\ node.callers = <<>>
BareLeaf(node) ==
    /\ IsLeaf(node)
    /\ node.kind = Absent
    /\ node.file = Absent
    /\ node.line = NoLine

\* C11: in the returned tree no name is expanded more than once, and every
\* occurrence of a name after its first, in traversal order, is a leaf
\* marked cycle with no calls and no callers.
C11_RepeatIsCycleLeaf ==
    cg_pc = "done" =>
        LET seq == Flatten(cg_result[1].tree) IN
        \A j, k \in 1..Len(seq) :
            (j < k /\ seq[j].name = seq[k].name) =>
                /\ ~Expanded(seq[k])
                /\ seq[k].cycle
                /\ IsLeaf(seq[k])

\* The entries of a symbol's edge list that name no record of the index
\* are, position by position, bare leaves of the node's child list.
UnresolvedKept(edges, children) ==
    \A i \in 1..Len(edges) :
        FindSymbol(edges[i]) = <<>> =>
            /\ i <= Len(children)
            /\ children[i].name = edges[i]
            /\ BareLeaf(children[i])

\* C12: the call returns, and every name without a record in the
\* references (referenced_by) of an expanded symbol is in that symbol's
\* calls (callers) as a leaf that carries only the name; the edge is not
\* dropped.
C12_UnresolvedEdgeKept ==
    cg_pc = "done" =>
        LET seq == Flatten(cg_result[1].tree) IN
        \A k \in 1..Len(seq) :
            Expanded(seq[k]) =>
                LET sym == FirstSymbol(seq[k].name) IN
                /\ cg_dir \in {"calls", "both"} =>
                       UnresolvedKept(sym.references, seq[k].calls)
                /\ cg_dir \in {"callers", "both"} =>
                       UnresolvedKept(sym.referenced_by, seq[k].callers)

\* The child list the running loop of an activation appends to.
Children(f) == IF f.phase = "calls" THEN f.node.calls ELSE f.node.callers

\* C13: when the node budget is found exhausted at an entry of a symbol's
\* references or referenced_by, that entry is still appended to the
\* symbol's calls or callers, as a leaf whose edges are not followed.
C13_BudgetEntryKept ==
    [][(HasNext /\ BudgetExhausted(node_count)) =>
          LET f == Top
              g == cg_stack'[Len(cg_stack)]
          IN  /\ Len(cg_stack') = Len(cg_stack)
              /\ g.node.calls \o g.node.callers =
                     (f.node.calls \o f.node.callers) \o <<NewNode(Ref)>>]_vars

\* The compound the name stands for has a document with a compounddef and
\* no memberdef.
ZeroMembers(name) ==
    \E k \in 1..Len(xml_index.compounds) :
        LET c == xml_index.compounds[k] IN
        /\ c.name = name
        /\ \A j \in 1..(k - 1) : xml_index.compounds[j].name # name
        /\ xml_docs[c.refid].state = "ok"
        /\ xml_docs[c.refid].def # <<>>
        /\ xml_docs[c.refid].members = <<>>

\* C14: get_members(name) returns the same from both backends: not-found
\* for the same names, and for a found compound the same kind, file, line,
\* brief and member summaries in document order; a compound with zero
\* members is found with an empty member list by both.
C14_GetMembersAgrees ==
    (ix_op = "get_members" /\ AllDocsWellFormed) =>
        /\ ix_xml.raised = ""
        /\ ix_sql.raised = ""
        /\ ix_xml.results = ix_sql.results
        /\ ZeroMembers(ix_arg) =>
               /\ ix_xml.results # <<>>
               /\ ix_xml.results[1].members = <<>>

\* A detail document named by index.xml is missing or not well-formed.
SomeDocUnusable == \E c \in CompoundIds : xml_docs[c].state \in {"missing", "malformed"}

\* C17: with a detail document missing or not well-formed, find_symbol,
\* get_all_symbols and get_members of both backends return without raising
\* (build_callgraph raises what its find_symbol calls raise).
C17_DocFailureTolerated ==
    (SomeDocUnusable /\ ix_op \in {"find_symbol", "get_all_symbols", "get_members"}) =>
        /\ ix_xml.raised = ""
        /\ ix_sql.raised = ""

(***************************************************************************)
(* Properties of the scoped queries                                         *)
(***************************************************************************)
Files(list) == {list[k].file : k \in 1..Len(list)} \ {""}

\* C15: get_all_files(scope) returns the same set of paths from both
\* backends, and on each backend a path is in the set exactly when it is
\* the file of a record get_all_symbols returns for the scope.
C15_AllFilesAgree ==
    ix_op = "get_all_files" =>
        /\ ix_xml.raised = ""
        /\ ix_sql.raised = ""
        /\ Range(ix_xml.results) = Range(ix_sql.results)
        /\ Range(ix_xml.results) = Files(XmlGetAllSymbolsScoped(ix_scope).results)
        /\ Range(ix_sql.results) = Files(SqlGetAllSymbolsScoped(db, ix_scope).results)

InScope(sym, scope) == sym.file # "" /\ StartsWith(sym.file, scope)

\* C18: with a non-empty scope find_symbol(name, scope) returns, on either
\* backend, exactly the records of find_symbol(name) whose file starts with
\* the scope as a literal case-sensitive prefix, never a record with an
\* empty file, and both backends return the same set.
C18_ScopeIsLiteralPrefix ==
    (ix_op = "find_symbol" /\ ix_scope # "") =>
        /\ ix_xml.raised = ""
        /\ ix_sql.raised = ""
        /\ Range(ix_xml.results) =
               {r \in Range(XmlFindSymbol(ix_arg).results) : InScope(r, ix_scope)}
        /\ Range(ix_sql.results) =
               {r \in Range(SqlFindSymbol(db, ix_arg).results) : InScope(r, ix_scope)}
        /\ Range(ix_xml.results) = Range(ix_sql.results)

\* C16: constructing DoxygenSQLiteIndex on a directory without index.xml
\* fails with the index-not-found error, whether or not a store file
\* exists (DoxygenXMLIndex always fails so, query.py:209-211).
C16_NoIndexNoBackend ==
    (st_last.op = "construct" /\ ~Exists("index")) =>
        st_last.raised = "FileNotFoundError"

\* C19: no row of the symbols table has an empty id: a memberdef without
\* an id is dropped when the store is built.
C19_NoEmptyId ==
    \A k \in 1..Len(db.symbols) : db.symbols[k].id # NoId

\* C20: on each instance a get_all_symbols() call returns the records in
\* the order the last get_all_symbols() call returned them, whatever list
\* commands ran on the instance in between.
C20_SameOrderAgain ==
    (ix_op = "get_all_symbols" /\ ix_xml.raised = "") =>
        /\ XmlGetAllSymbols = ix_xml
        /\ SqlGetAllSymbols(db) = ix_sql

(***************************************************************************)
(* Properties of one _paginate call                                         *)
(***************************************************************************)
\* C21: for offset >= 0 and limit >= 1 the meta reports the length of the
\* full list as total and echoes offset and limit; the page is the limit
\* elements that follow the first offset ones (or those there are);
\* truncated is true exactly when elements remain after the page; the hint
\* is present exactly when truncated, and names next offset = offset + limit
\* and remaining = total - (offset + limit), which is at least 1.
C21_MetaDescribesPage ==
    (pg_pc = "answered" /\ pg_limit >= 1) =>
        LET total == Len(pg_items)
            end   == Min(pg_offset + pg_limit, total)
            m     == pg_meta[1]
        IN  /\ m.total = total
            /\ m.offset = pg_offset
            /\ m.limit = pg_limit
            /\ pg_acc = IF pg_offset >= total THEN <<>>
                        ELSE SubSeq(pg_items, pg_offset + 1, end)
            /\ m.truncated <=> (pg_offset < total /\ end < total)
            /\ (m.hint # <<>>) <=> m.truncated
            /\ m.truncated =>
                   /\ m.hint[1].next_offset = pg_offset + pg_limit
                   /\ m.hint[1].remaining = total - (pg_offset + pg_limit)
                   /\ m.hint[1].remaining >= 1

\* A page from the middle of a list that leaves elements behind it.
C21_Witness ==
    /\ pg_pc = "answered"
    /\ pg_limit >= 1
    /\ pg_offset >= 1
    /\ pg_acc # <<>>
    /\ pg_meta[1].truncated

\* The symbol build_callgraph resolves the name to has an excluded kind.
Excluded(name) ==
    /\ FindSymbol(name) # <<>>
    /\ FirstSymbol(name).kind \in cg_exclude

\* C22: a symbol whose kind is in exclude_kinds is never expanded: each of
\* its nodes has empty calls and callers and carries no kind, file or line;
\* and the callgraph command excludes the kind define unless
\* --include-macros is given.
C22_ExcludedNotExpanded ==
    /\ ~cg_macros => "define" \in cg_exclude
    /\ cg_pc = "done" =>
           LET seq == Flatten(cg_result[1].tree) IN
           \A k \in 1..Len(seq) : Excluded(seq[k].name) => IsLeaf(seq[k]) /\ ~Expanded(seq[k])

\* A call with depth >= 2 on A, which references the excluded macro B that
\* has references of its own, has returned with B visited.
C22_Witness ==
    /\ cg_pc = "done"
    /\ ~cg_macros
    /\ cg_name = "A"
    /\ cg_depth >= 2
    /\ cg_dir = "calls"
    /\ max_nodes = 0
    /\ Excluded("B")
    /\ FirstSymbol("B").references # <<>>
    /\ visited = {"A", "B"}

RECURSIVE WithinDepth(_, _, _)
\* The node, k edges below the root, and everything under it respect the
\* depth: no node lies deeper than depth, and a node that is expanded or
\* has children lies less deep than depth.
WithinDepth(node, k, depth) ==
    /\ k <= depth
    /\ (Expanded(node) \/ ~IsLeaf(node)) => k < depth
    /\ \A j \in 1..Len(node.calls) : WithinDepth(node.calls[j], k + 1, depth)
    /\ \A j \in 1..Len(node.callers) : WithinDepth(node.callers[j], k + 1, depth)

\* C23: every node of the returned tree lies at most depth edges from the
\* root and only nodes less than depth edges from the root are expanded;
\* with depth <= 0 the root is returned unexpanded and total_nodes is 0.
C23_DepthBound ==
    cg_pc = "done" =>
        LET r == cg_result[1] IN
        IF cg_depth <= 0
        THEN r.tree = NewNode(cg_name) /\ r.meta.total_nodes = 0
        ELSE WithinDepth(r.tree, 0, cg_depth)

\* A call with depth 1 on A has returned: B, which has references of its
\* own, is a child of A and was not expanded.
C23_Witness ==
    /\ cg_pc = "done"
    /\ cg_name = "A"
    /\ cg_depth = 1
    /\ cg_dir = "calls"
    /\ max_nodes = 0
    /\ cg_exclude = {}
    /\ FirstSymbol("A").references = <<"B">>
    /\ FirstSymbol("B").references # <<>>
    /\ cg_result[1].tree.calls = <<NewNode("B")>>

\* C25: total_nodes is the number of distinct names visited and never
\* exceeds max_nodes when max_nodes > 0; truncated is false when
\* max_nodes = 0; the hint is present exactly when truncated is true and
\* suggests the budget 2 * max_nodes.
C25_MetaConsistent ==
    cg_pc = "done" =>
        LET meta == cg_result[1].meta IN
        /\ meta.total_nodes = Cardinality(visited)
        /\ meta.max_nodes = max_nodes
        /\ max_nodes > 0 => meta.total_nodes <= max_nodes
        /\ max_nodes = 0 => ~meta.truncated
        /\ (meta.hint # <<>>) <=> meta.truncated
        /\ meta.truncated => meta.hint = <<2 * max_nodes>>

\* A call with a budget of 2 has returned after visiting two names, with
\* truncated set.
C25_Witness ==
    /\ cg_pc = "done"
    /\ max_nodes = 2
    /\ Cardinality(visited) = 2
    /\ cg_result[1].meta.truncated
    /\ cg_result[1].meta.hint = <<4>>

\* C24: for the same XML input and the same arguments, build_callgraph
\* returns the same tree and the same _meta from DoxygenXMLIndex and from
\* DoxygenSQLiteIndex, also when a name matches several records.
C24_SameCallgraph ==
    ix_op = "build_callgraph" => ix_xml = ix_sql

\* The results of find_symbol("A") on a store holding the complete contents
\* of the documents as they are, and on the store of the earlier run.
NewContents == SqlFindSymbol(BuildDb(now), "A").results
OldContents == SqlFindSymbol(OldStore, "A").results

\* C26: a process that constructs a DoxygenSQLiteIndex and queries it while
\* another process rebuilds the store serves the complete previous contents
\* or the complete new contents, or it fails.
C26_NoPartialRead ==
    \A p \in Procs :
        (rb_pc[p] = "answered" /\ rb_ret[p].raised = "") =>
            \/ rb_ret[p].results = NewContents
            \/ rb_ret[p].results = OldContents

\* C29: install followed by remove leaves the hook file as it was before the
\* install (absent if it was absent, otherwise present with the same
\* content), and install on a file that holds the block changes nothing.
C29_InstallRemoveRestores ==
    /\ \A k \in 1..(Len(hk_ops) - 1) :
          (/\ hk_ops[k] = "install"
           /\ hk_ops[k + 1] = "remove"
           /\ (hk_hist[k] # <<>> => ~HasMarker(hk_hist[k][1])))
          => hk_hist[k + 2] = hk_hist[k]
    /\ \A k \in 1..Len(hk_ops) :
          (/\ hk_ops[k] = "install"
           /\ hk_hist[k] # <<>>
           /\ HasMarker(hk_hist[k][1]))
          => hk_hist[k + 1] = hk_hist[k]

\* C28: when a run without --force reports up-to-date, every output it asks
\* for exists and was written by a successful Doxygen run that is not older
\* than the newest source file.
C28_UpToDateIsCurrent ==
    (g_last # <<>> /\ g_last[1].outcome = "up-to-date") =>
        \A o \in Requested(g_last[1].no_html, g_last[1].no_xml) :
            /\ g_out[o].exists
            /\ g_out[o].good
            /\ g_out[o].at >= g_src

\* The condition of the innermost enclosing block that tests a CONFIG_
\* symbol: blocks holds, for each open block, the symbol ("" when the block
\* tests none) and the branch the line is in.  In an #elif branch the
\* condition is left open.
Unspecified == "<unspecified>"
RECURSIVE Innermost(_)
Innermost(blocks) ==
    IF blocks = <<>> THEN Absent
    ELSE LET b == blocks[Len(blocks)] IN
         IF b.config = "" THEN Innermost(SubSeq(blocks, 1, Len(blocks) - 1))
         ELSE IF b.branch = "if" THEN b.config
         ELSE IF b.branch = "else" THEN Toggle(b.config)
         ELSE Unspecified

\* The condition each include of a file lies under.
RECURSIVE Enclosing(_, _)
Enclosing(lines, blocks) ==
    IF lines = <<>> THEN <<>>
    ELSE LET line == Head(lines)
             n == Len(blocks)
         IN  IF line = Include
             THEN <<Innermost(blocks)>> \o Enclosing(Tail(lines), blocks)
             ELSE IF line \in {IfdefX, IfdefY, IfdefFoo}
             THEN Enclosing(Tail(lines),
                            Append(blocks, [config |-> IfdefRe(line), branch |-> "if"]))
             ELSE IF line = Elif
             THEN Enclosing(Tail(lines), [blocks EXCEPT ![n].branch = "elif"])
             ELSE IF line = Else
             THEN Enclosing(Tail(lines), [blocks EXCEPT ![n].branch = "else"])
             ELSE Enclosing(Tail(lines), SubSeq(blocks, 1, n - 1))

\* C30: every include edge carries the condition of the innermost enclosing
\* CONFIG_ block (CONFIG_X in the #ifdef branch, !CONFIG_X in the #else
\* branch, also after #elif branches) and none outside every CONFIG_ block,
\* whatever other conditionals the file nests.
C30_InnermostCondition ==
    inc_edges # <<>> =>
        LET want == Enclosing(inc_text, <<>>) IN
        /\ Len(inc_edges[1]) = Len(want)
        /\ \A k \in 1..Len(want) :
              want[k] # Unspecified => inc_edges[1][k] = want[k]

\* What identifies a matching symbol: name, kind, file relative to the
\* workspace, and lines.
Ident(sym) ==
    [name |-> sym.name, kind |-> sym.kind,
     file |-> IF sym.file # Absent THEN sym.file ELSE Relpath(sym.path),
     start_line |-> sym.start_line, end_line |-> sym.end_line]
Idents(symbols) == {Ident(symbols[k]) : k \in 1..Len(symbols)}

\* The symbols of the workspace that match a search.
WorkspaceMatches(name, type, exact) ==
    Idents(SearchSymbols(TagsToSymbols(Tags), name, type, exact))

\* C27: a search returns the matching symbols of the workspace, whether the
\* index was rebuilt in the invocation or read back from indexing.md and
\* whatever searches were run before.
C27_HistoryIndependent ==
    si_last # <<>> =>
        /\ si_last[1].raised = ""
        /\ Idents(si_last[1].results) =
              WorkspaceMatches(si_last[1].name, si_last[1].type, si_last[1].exact)

=============================================================================
